---- MODULE Spec2Model ----
(***************************************************************************)
(* State-machine model of the Slack "revoke session" action                *)
(* (src/dist/index.js): the invoke handler with its helpers                *)
(* validateInputs, getAuthorizationHeader, getClientCredentialsToken,      *)
(* getBaseURL, parseDuration, lookupUserByEmail and resetUserSessions,     *)
(* the error and halt handlers, and two invocations whose steps interleave *)
(* at their awaits.                                                        *)
(*                                                                         *)
(* JavaScript strings that the code inspects are sequences of one-letter   *)
(* strings ("a@a.a" is <<"a","@","a",".","a">>).  An absent optional       *)
(* string (undefined) and the empty string are both <<>>: the code tests   *)
(* those values for truthiness only.  params.userEmail, which the code     *)
(* also tests with typeof, is a tagged value.                              *)
(***************************************************************************)
EXTENDS Integers, Sequences, FiniteSets, TLC

VARIABLES
    params,      \* the params object given to invoke
    context,     \* the context object given to invoke: environment, secrets
    pc,          \* position of the invocation
    authHeader,  \* const authHeader (invoke)
    baseUrl,     \* const baseUrl (invoke)
    delayMs,     \* const delayMs (invoke)
    user,        \* const user (invoke): the record lookupUserByEmail returned
    calls,       \* every fetch() issued so far, in order
    tokenResp,   \* the response the token endpoint gave, once received
    lookupResp,  \* the response the lookup endpoint gave, once received
    resetResp,   \* the response the reset endpoint gave, once received
    timers,      \* the setTimeout waits that were started, in order
    result,      \* value invoke resolved with
    thrown,      \* error thrown inside the try block of invoke
    err,         \* error invoke rejected with
    errorCall,   \* the last call of the error entry point
    haltCall,    \* the last call of the halt entry point
    other,       \* the locals of a second invocation, while it is not running
    overlapped   \* the two invocations were in progress at the same time

vars == <<params, context, pc, authHeader, baseUrl, delayMs, user, calls,
          tokenResp, lookupResp, resetResp, timers, result, thrown, err,
          errorCall, haltCall, other, overlapped>>

----------------------------------------------------------------------------
(* Strings *)

\* Characters matched by \s in a regular expression and removed by trim().
WhiteSpace == {" ", "\t", "\n"}

\* The JavaScript value undefined in a slot that otherwise holds a string.
Undefined == <<"undefined">>

RECURSIVE TrimStart(_)
TrimStart(s) ==
    IF s # <<>> /\ Head(s) \in WhiteSpace THEN TrimStart(Tail(s)) ELSE s

RECURSIVE TrimEnd(_)
TrimEnd(s) ==
    IF s # <<>> /\ s[Len(s)] \in WhiteSpace
    THEN TrimEnd(SubSeq(s, 1, Len(s) - 1)) ELSE s

\* String.prototype.trim
Trim(s) == TrimEnd(TrimStart(s))

\* String.prototype.startsWith
StartsWith(s, prefix) ==
    /\ Len(s) >= Len(prefix)
    /\ SubSeq(s, 1, Len(prefix)) = prefix

\* String.prototype.endsWith
EndsWith(s, suffix) ==
    /\ Len(s) >= Len(suffix)
    /\ SubSeq(s, Len(s) - Len(suffix) + 1, Len(s)) = suffix

\* the character class [^\s@]
NotSpaceNorAt(c) == c \notin WhiteSpace /\ c # "@"

\* s matches [^\s@]+ from position a to position b (both inclusive)
RunOfNotSpaceNorAt(s, a, b) ==
    /\ a <= b
    /\ \A k \in a..b : NotSpaceNorAt(s[k])

\* emailRegex.test(s) had the regular expression no "\." part:
\* /^[^\s@]+@[^\s@]+$/
EmailRegexTestNoDot(s) ==
    \E i \in 1..Len(s) :
        /\ s[i] = "@"
        /\ RunOfNotSpaceNorAt(s, 1, i - 1)
        /\ RunOfNotSpaceNorAt(s, i + 1, Len(s))

\* emailRegex.test(s) with emailRegex = /^[^\s@]+@[^\s@]+\.[^\s@]+$/
EmailRegexTest(s) ==
    \E i \in 1..Len(s) : \E j \in 1..Len(s) :
        /\ s[i] = "@"
        /\ s[j] = "."
        /\ RunOfNotSpaceNorAt(s, 1, i - 1)
        /\ RunOfNotSpaceNorAt(s, i + 1, j - 1)
        /\ RunOfNotSpaceNorAt(s, j + 1, Len(s))

\* encodeURIComponent on the characters emails are made of here
EncodeChar(c) ==
    CASE c = "@" -> <<"%", "4", "0">>
      [] c = " " -> <<"%", "2", "0">>
      [] c = "\t" -> <<"%", "0", "9">>
      [] c = "\n" -> <<"%", "0", "A">>
      [] OTHER -> <<c>>

RECURSIVE EncodeURIComponent(_)
EncodeURIComponent(s) ==
    IF s = <<>> THEN <<>>
    ELSE EncodeChar(Head(s)) \o EncodeURIComponent(Tail(s))

----------------------------------------------------------------------------
(* Errors *)

\* An error message: a fixed text with the values the template inserts.
Msg(text) ==
    [text |-> text, email |-> <<>>, id |-> <<>>, code |-> "", status |-> 0,
     statusText |-> "", body |-> "", unexpected |-> FALSE]

NoError == [class |-> "none", retryable |-> FALSE, msg |-> Msg("")]

\* new RetryableError(message)
RetryableError(m) == [class |-> "RetryableError", retryable |-> TRUE, msg |-> m]

\* new FatalError(message)
FatalError(m) == [class |-> "FatalError", retryable |-> FALSE, msg |-> m]

\* new Error(message), and the TypeError the runtime throws
PlainError(m) == [class |-> "Error", retryable |-> FALSE, msg |-> m]

\* a catch block that wraps without the 'Unexpected error: ' prefix
CaughtNoPrefix(e) ==
    IF e.class \in {"RetryableError", "FatalError"}
    THEN e
    ELSE FatalError(e.msg)

\* a catch block that rethrows only a RetryableError as it is
CaughtFatalRewrapped(e) ==
    IF e.class = "RetryableError"
    THEN e
    ELSE FatalError([e.msg EXCEPT !.unexpected = TRUE])

\* a catch block that rethrows everything as it is
CaughtRethrowsAll(e) == e

\* the catch block of invoke
Caught(e) ==
    IF e.class \in {"RetryableError", "FatalError"}
    THEN e
    ELSE FatalError([e.msg EXCEPT !.unexpected = TRUE])

----------------------------------------------------------------------------
(* validateInputs *)

\* !v for the value of params.userEmail
Falsy(v) ==
    \/ v.t \in {"undefined", "null"}
    \/ v.t = "number" /\ v.n = 0
    \/ v.t = "string" /\ v.s = <<>>

\* validateInputs without the trim() test
validateInputsNoTrim(p) ==
    IF Falsy(p.userEmail) \/ p.userEmail.t # "string"
    THEN FatalError(Msg("Invalid or missing userEmail parameter"))
    ELSE IF ~EmailRegexTest(p.userEmail.s)
    THEN FatalError(Msg("Invalid email format"))
    ELSE NoError

\* validateInputs(params): the error it throws, NoError when it returns
validateInputs(p) ==
    IF Falsy(p.userEmail) \/ p.userEmail.t # "string" \/ Trim(p.userEmail.s) = <<>>
    THEN FatalError(Msg("Invalid or missing userEmail parameter"))
    ELSE IF ~EmailRegexTest(p.userEmail.s)
    THEN FatalError(Msg("Invalid email format"))
    ELSE NoError

----------------------------------------------------------------------------
(* Authorization: getAuthorizationHeader, getClientCredentialsToken *)

SGNL_USER_AGENT == "SGNL-CAEP-Hub/2.0"

BearerPrefix == <<"B", "e", "a", "r", "e", "r", " ">>

BasicPrefix == <<"B", "a", "s", "i", "c", " ">>

InParams == <<"I", "n", "P", "a", "r", "a", "m", "s">>

\* btoa, on the credential strings of this model
btoa(s) ==
    CASE s = <<"u", ":", "p">> -> <<"d", "T", "p", "w">>
      [] s = <<"c", ":", "s">> -> <<"Y", "z", "p", "z">>

\* the prefix added without the startsWith test
WithBearerAlways(token) == BearerPrefix \o token

\* token.startsWith('Bearer ') ? token : `Bearer ${token}`
WithBearer(token) ==
    IF StartsWith(token, BearerPrefix) THEN token ELSE BearerPrefix \o token

\* getAuthorizationHeader with the authorization-code branch taken without
\* a test of its secret, after all the others
AuthMethodCodeUnchecked(ctx) ==
    IF ctx.secrets.BEARER_AUTH_TOKEN # <<>> THEN "bearer"
    ELSE IF ctx.secrets.BASIC_PASSWORD # <<>> /\ ctx.secrets.BASIC_USERNAME # <<>>
    THEN "basic"
    ELSE IF ctx.secrets.OAUTH2_CLIENT_CREDENTIALS_CLIENT_SECRET # <<>>
    THEN "client_credentials"
    ELSE "authorization_code"

\* getAuthorizationHeader with the authorization-code branch placed before
\* the basic branch
AuthMethodCodeBeforeBasic(ctx) ==
    IF ctx.secrets.BEARER_AUTH_TOKEN # <<>> THEN "bearer"
    ELSE IF ctx.secrets.OAUTH2_AUTHORIZATION_CODE_ACCESS_TOKEN # <<>>
    THEN "authorization_code"
    ELSE IF ctx.secrets.BASIC_PASSWORD # <<>> /\ ctx.secrets.BASIC_USERNAME # <<>>
    THEN "basic"
    ELSE IF ctx.secrets.OAUTH2_CLIENT_CREDENTIALS_CLIENT_SECRET # <<>>
    THEN "client_credentials"
    ELSE "none"

\* The branch of getAuthorizationHeader that the context selects.
AuthMethod(ctx) ==
    IF ctx.secrets.BEARER_AUTH_TOKEN # <<>> THEN "bearer"
    ELSE IF ctx.secrets.BASIC_PASSWORD # <<>> /\ ctx.secrets.BASIC_USERNAME # <<>>
    THEN "basic"
    ELSE IF ctx.secrets.OAUTH2_AUTHORIZATION_CODE_ACCESS_TOKEN # <<>>
    THEN "authorization_code"
    ELSE IF ctx.secrets.OAUTH2_CLIENT_CREDENTIALS_CLIENT_SECRET # <<>>
    THEN "client_credentials"
    ELSE "none"

NoAuthMessage ==
    "No authentication configured. Provide one of: BEARER_AUTH_TOKEN, BASIC_USERNAME/BASIC_PASSWORD, OAUTH2_AUTHORIZATION_CODE_ACCESS_TOKEN, or OAUTH2_CLIENT_CREDENTIALS_*"

\* A fetch() call: the request as it leaves the process.  query is the
\* email query parameter, body the form or JSON members as <<name, value>>.
Request(op, method, url, path) ==
    [op |-> op, method |-> method, url |-> url, path |-> path, query |-> <<>>,
     Authorization |-> <<>>, ContentType |-> "", Accept |-> "",
     UserAgent |-> "", body |-> <<>>]

\* getClientCredentialsToken sending the Basic header whatever the auth style
TokenRequestAlwaysBasic(ctx) ==
    LET env == ctx.environment
        clientId == env.OAUTH2_CLIENT_CREDENTIALS_CLIENT_ID
        clientSecret == ctx.secrets.OAUTH2_CLIENT_CREDENTIALS_CLIENT_SECRET
        scope == env.OAUTH2_CLIENT_CREDENTIALS_SCOPE
        audience == env.OAUTH2_CLIENT_CREDENTIALS_AUDIENCE
        inParams == env.OAUTH2_CLIENT_CREDENTIALS_AUTH_STYLE = InParams
        form == <<<<"grant_type", <<"client_credentials">>>>>>
                \o (IF scope # <<>> THEN <<<<"scope", scope>>>> ELSE <<>>)
                \o (IF audience # <<>> THEN <<<<"audience", audience>>>> ELSE <<>>)
                \o (IF inParams
                    THEN <<<<"client_id", clientId>>, <<"client_secret", clientSecret>>>>
                    ELSE <<>>)
    IN  [Request("token", "POST", env.OAUTH2_CLIENT_CREDENTIALS_TOKEN_URL, "")
            EXCEPT !.ContentType = "application/x-www-form-urlencoded",
                   !.Accept = "application/json",
                   !.UserAgent = SGNL_USER_AGENT,
                   !.Authorization =
                       BasicPrefix \o btoa(clientId \o <<":">> \o clientSecret),
                   !.body = form]

\* The request getClientCredentialsToken sends.
TokenRequest(ctx) ==
    LET env == ctx.environment
        clientId == env.OAUTH2_CLIENT_CREDENTIALS_CLIENT_ID
        clientSecret == ctx.secrets.OAUTH2_CLIENT_CREDENTIALS_CLIENT_SECRET
        scope == env.OAUTH2_CLIENT_CREDENTIALS_SCOPE
        audience == env.OAUTH2_CLIENT_CREDENTIALS_AUDIENCE
        inParams == env.OAUTH2_CLIENT_CREDENTIALS_AUTH_STYLE = InParams
        form == <<<<"grant_type", <<"client_credentials">>>>>>
                \o (IF scope # <<>> THEN <<<<"scope", scope>>>> ELSE <<>>)
                \o (IF audience # <<>> THEN <<<<"audience", audience>>>> ELSE <<>>)
                \o (IF inParams
                    THEN <<<<"client_id", clientId>>, <<"client_secret", clientSecret>>>>
                    ELSE <<>>)
    IN  [Request("token", "POST", env.OAUTH2_CLIENT_CREDENTIALS_TOKEN_URL, "")
            EXCEPT !.ContentType = "application/x-www-form-urlencoded",
                   !.Accept = "application/json",
                   !.UserAgent = SGNL_USER_AGENT,
                   !.Authorization =
                       IF inParams THEN <<>>
                       ELSE BasicPrefix \o btoa(clientId \o <<":">> \o clientSecret),
                   !.body = form]

\* getAuthorizationHeader without its test of tokenUrl and clientId
getAuthorizationHeaderUnchecked(ctx) ==
    LET m == AuthMethod(ctx)
        none == [kind |-> "error", header |-> <<>>, error |-> NoError]
    IN  CASE m = "bearer" ->
               [none EXCEPT !.kind = "header",
                            !.header = WithBearer(ctx.secrets.BEARER_AUTH_TOKEN)]
          [] m = "basic" ->
               [none EXCEPT !.kind = "header",
                            !.header = BasicPrefix \o
                                btoa(ctx.secrets.BASIC_USERNAME \o <<":">>
                                     \o ctx.secrets.BASIC_PASSWORD)]
          [] m = "authorization_code" ->
               [none EXCEPT !.kind = "header",
                            !.header = WithBearer(
                                ctx.secrets.OAUTH2_AUTHORIZATION_CODE_ACCESS_TOKEN)]
          [] m = "client_credentials" -> [none EXCEPT !.kind = "fetch"]
          [] OTHER -> [none EXCEPT !.error = PlainError(Msg(NoAuthMessage))]

\* getAuthorizationHeader up to its first await: the header it returns
\* (kind "header"), the error it throws (kind "error") or the token request
\* it sends (kind "fetch").
getAuthorizationHeader(ctx) ==
    LET m == AuthMethod(ctx)
        none == [kind |-> "error", header |-> <<>>, error |-> NoError]
    IN  CASE m = "bearer" ->
               [none EXCEPT !.kind = "header",
                            !.header = WithBearer(ctx.secrets.BEARER_AUTH_TOKEN)]
          [] m = "basic" ->
               [none EXCEPT !.kind = "header",
                            !.header = BasicPrefix \o
                                btoa(ctx.secrets.BASIC_USERNAME \o <<":">>
                                     \o ctx.secrets.BASIC_PASSWORD)]
          [] m = "authorization_code" ->
               [none EXCEPT !.kind = "header",
                            !.header = WithBearer(
                                ctx.secrets.OAUTH2_AUTHORIZATION_CODE_ACCESS_TOKEN)]
          [] m = "client_credentials" ->
               IF \/ ctx.environment.OAUTH2_CLIENT_CREDENTIALS_TOKEN_URL = <<>>
                  \/ ctx.environment.OAUTH2_CLIENT_CREDENTIALS_CLIENT_ID = <<>>
               THEN [none EXCEPT !.error = PlainError(Msg(
                        "OAuth2 Client Credentials flow requires TOKEN_URL and CLIENT_ID in env"))]
               ELSE [none EXCEPT !.kind = "fetch"]
          [] OTHER -> [none EXCEPT !.error = PlainError(Msg(NoAuthMessage))]

\* response.ok
ResponseOk(r) == r.status >= 200 /\ r.status <= 299

\* getClientCredentialsToken after its fetch: the error it throws for the
\* response r, NoError when it returns r's access token.  After a json()
\* that failed the body is used up, and text() rejects with a TypeError.
TokenError(r) ==
    IF r.net = "reject" THEN PlainError(Msg("fetch failed"))
    ELSE IF ~ResponseOk(r)
    THEN IF r.jsonOk
         THEN PlainError([Msg("OAuth2 token request failed: ")
                             EXCEPT !.status = r.status,
                                    !.statusText = r.statusText,
                                    !.body = r.raw])
         ELSE PlainError(Msg("Body is unusable"))
    ELSE IF ~r.jsonOk THEN PlainError(Msg("Unexpected token in JSON"))
    ELSE IF r.access_token = <<>>
    THEN PlainError(Msg("No access_token in OAuth2 response"))
    ELSE NoError

----------------------------------------------------------------------------
(* getBaseURL *)

\* env.ADDRESS || params?.address
AddressEnvFirst(p, ctx) ==
    IF ctx.environment.ADDRESS # <<>> THEN ctx.environment.ADDRESS ELSE p.address

\* params?.address || env.ADDRESS
Address(p, ctx) ==
    IF p.address # <<>> THEN p.address ELSE ctx.environment.ADDRESS

\* getBaseURL without its test of the address
BaseURLErrorNever(p, ctx) == NoError

\* getBaseURL(params, context): the error it throws, NoError when it returns
BaseURLError(p, ctx) ==
    IF Address(p, ctx) = <<>>
    THEN PlainError(Msg(
        "No URL specified. Provide address parameter or ADDRESS environment variable"))
    ELSE NoError

\* getBaseURL(params, context): the value it returns
getBaseURL(p, ctx) ==
    LET address == Address(p, ctx)
    IN  IF EndsWith(address, <<"/">>)
        THEN SubSeq(address, 1, Len(address) - 1)
        ELSE address

\* baseUrl.replace(/\/$/, '')
StripSlash(s) ==
    IF EndsWith(s, <<"/">>) THEN SubSeq(s, 1, Len(s) - 1) ELSE s

----------------------------------------------------------------------------
(* parseDuration *)

Digits == {"0", "1", "2", "3", "4", "5", "6", "7", "8", "9"}

DigitVal(c) ==
    CASE c = "0" -> 0 [] c = "1" -> 1 [] c = "2" -> 2 [] c = "3" -> 3
      [] c = "4" -> 4 [] c = "5" -> 5 [] c = "6" -> 6 [] c = "7" -> 7
      [] c = "8" -> 8 [] c = "9" -> 9

\* number of leading digits of s
RECURSIVE DigitRun(_)
DigitRun(s) ==
    IF s # <<>> /\ Head(s) \in Digits THEN 1 + DigitRun(Tail(s)) ELSE 0

\* value of a string of digits
RECURSIVE DecimalValue(_)
DecimalValue(s) ==
    IF s = <<>> THEN 0
    ELSE 10 * DecimalValue(SubSeq(s, 1, Len(s) - 1)) + DigitVal(s[Len(s)])

\* A number of milliseconds: the decimal number mant * 10^exp, with mant not
\* a multiple of 10 (0 is mant 0, exp 0).  Every value parseDuration
\* returns is a decimal number; the products are exact here, where a
\* product of doubles with a fractional operand is rounded in its last place.
RECURSIVE Millis(_, _)
Millis(mant, exp) ==
    IF mant = 0 THEN [mant |-> 0, exp |-> 0]
    ELSE IF mant % 10 = 0 THEN Millis(mant \div 10, exp + 1)
    ELSE [mant |-> mant, exp |-> exp]

LowerChar(c) ==
    CASE c = "M" -> "m" [] c = "S" -> "s" [] c = "H" -> "h" [] OTHER -> c

\* String.prototype.toLowerCase on the letters of the units
ToLowerCase(s) == [k \in 1..Len(s) |-> LowerChar(s[k])]

\* switch (unit) with a minute of 60 milliseconds: value * 60
UnitFactorMinute60(unit) ==
    CASE unit = <<>> -> [m |-> 1, e |-> 0]
      [] unit = <<"m", "s">> -> [m |-> 1, e |-> 0]
      [] unit = <<"s">> -> [m |-> 1, e |-> 3]
      [] unit = <<"m">> -> [m |-> 60, e |-> 0]
      [] unit = <<"h">> -> [m |-> 60 * 60, e |-> 3]

\* factor of the unit, as m * 10^e: (match[2] || 'ms').toLowerCase(), then
\* the switch with value, value * 1000, value * 60 * 1000 and
\* value * 60 * 60 * 1000
UnitFactor(unit) ==
    CASE unit = <<>> -> [m |-> 1, e |-> 0]
      [] unit = <<"m", "s">> -> [m |-> 1, e |-> 0]
      [] unit = <<"s">> -> [m |-> 1, e |-> 3]
      [] unit = <<"m">> -> [m |-> 60, e |-> 3]
      [] unit = <<"h">> -> [m |-> 60 * 60, e |-> 3]

\* durationStr.match(/^(\d+(?:\.\d+)?)(ms|s|m|h)?$/i): the three parts
\* integer digits, fraction digits and unit; ok is FALSE without a match
DurationMatch(s) ==
    LET a    == DigitRun(s)
        rest == SubSeq(s, a + 1, Len(s))
        dot  == rest # <<>> /\ Head(rest) = "."
        f    == IF dot THEN DigitRun(Tail(rest)) ELSE 0
        frac == IF dot /\ f > 0 THEN SubSeq(rest, 2, f + 1) ELSE <<>>
        unit == IF dot /\ f > 0 THEN SubSeq(rest, f + 2, Len(rest)) ELSE rest
    IN  [ok |-> a > 0 /\ ToLowerCase(unit) \in
                   {<<>>, <<"m", "s">>, <<"s">>, <<"m">>, <<"h">>},
         int |-> SubSeq(s, 1, a), frac |-> frac, unit |-> ToLowerCase(unit)]

\* parseDuration(durationStr) for an absent or string-valued delay
parseDuration(d) ==
    IF d.t = "undefined" \/ d.s = <<>> THEN Millis(100, 0)
    ELSE LET m == DurationMatch(d.s)
         IN  IF ~m.ok THEN Millis(100, 0)
             ELSE Millis(DecimalValue(m.int \o m.frac) * UnitFactor(m.unit).m,
                         UnitFactor(m.unit).e - Len(m.frac))

----------------------------------------------------------------------------
(* lookupUserByEmail, resetUserSessions *)

NoUser == [present |-> FALSE, id |-> Undefined]

\* lookupUserByEmail without 'User-Agent' in its headers
LookupRequestNoUserAgent(email, header, base) ==
    [Request("lookup", "GET", StripSlash(base), "/api/users.lookupByEmail")
        EXCEPT !.query = EncodeURIComponent(email),
               !.Authorization = header,
               !.ContentType = "application/json"]

\* The request lookupUserByEmail(email, header, base) sends.
LookupRequest(email, header, base) ==
    [Request("lookup", "GET", StripSlash(base), "/api/users.lookupByEmail")
        EXCEPT !.query = EncodeURIComponent(email),
               !.Authorization = header,
               !.ContentType = "application/json",
               !.UserAgent = SGNL_USER_AGENT]

\* resetUserSessions without method: 'POST' in its fetch options
ResetRequestNoMethod(userId, header, base) ==
    [Request("reset", "GET", StripSlash(base), "/api/admin.users.session.reset")
        EXCEPT !.Authorization = header,
               !.ContentType = "application/json",
               !.UserAgent = SGNL_USER_AGENT,
               !.body = IF userId = Undefined THEN <<>>
                        ELSE <<<<"user_id", userId>>>>]

\* resetUserSessions that posts the id of one fixed user
ResetRequestFixedUser(userId, header, base) ==
    [Request("reset", "POST", StripSlash(base), "/api/admin.users.session.reset")
        EXCEPT !.Authorization = header,
               !.ContentType = "application/json",
               !.UserAgent = SGNL_USER_AGENT,
               !.body = <<<<"user_id", <<"U", "1">>>>>>]

\* The request resetUserSessions(userId, header, base) sends;
\* JSON.stringify leaves out a member whose value is undefined.
ResetRequest(userId, header, base) ==
    [Request("reset", "POST", StripSlash(base), "/api/admin.users.session.reset")
        EXCEPT !.Authorization = header,
               !.ContentType = "application/json",
               !.UserAgent = SGNL_USER_AGENT,
               !.body = IF userId = Undefined THEN <<>>
                        ELSE <<<<"user_id", userId>>>>]

\* if (!response.ok) { ... } with status > 500 for status >= 500
HttpErrorAbove500(what, r) ==
    IF r.status = 429
    THEN RetryableError(Msg("Slack API rate limit exceeded"))
    ELSE IF r.status > 500
    THEN RetryableError([Msg("Slack API error: ") EXCEPT !.status = r.status])
    ELSE FatalError([Msg(what) EXCEPT !.status = r.status,
                                      !.statusText = r.statusText])

\* if (!response.ok) { ... } without the test for status 429
HttpErrorNo429(what, r) ==
    IF r.status >= 500
    THEN RetryableError([Msg("Slack API error: ") EXCEPT !.status = r.status])
    ELSE FatalError([Msg(what) EXCEPT !.status = r.status,
                                      !.statusText = r.statusText])

\* if (!response.ok) { ... } of lookupUserByEmail ("lookup") and of
\* resetUserSessions ("reset")
HttpError(what, r) ==
    IF r.status = 429
    THEN RetryableError(Msg("Slack API rate limit exceeded"))
    ELSE IF r.status >= 500
    THEN RetryableError([Msg("Slack API error: ") EXCEPT !.status = r.status])
    ELSE FatalError([Msg(what) EXCEPT !.status = r.status,
                                      !.statusText = r.statusText])

\* lookupUserByEmail without the last throw of if (!response.ok) { ... }:
\* a status below 500 other than 429 goes on to the body
LookupErrorFallsThrough(email, r) ==
    IF r.net = "reject" THEN PlainError(Msg("fetch failed"))
    ELSE IF ~ResponseOk(r) /\ (r.status = 429 \/ r.status >= 500)
    THEN HttpError("Failed to lookup user: ", r)
    ELSE IF ~r.jsonOk THEN PlainError(Msg("Unexpected token in JSON"))
    ELSE IF ~r.ok
    THEN IF r.error = "users_not_found"
         THEN FatalError([Msg("User not found with email: ") EXCEPT !.email = email])
         ELSE IF r.error = "invalid_auth" \/ r.error = "not_authed"
         THEN FatalError(Msg("Invalid or missing authentication token"))
         ELSE IF r.error = "account_inactive" \/ r.error = "token_revoked"
         THEN FatalError(Msg("Authentication token is inactive or revoked"))
         ELSE FatalError([Msg("Slack API error: ") EXCEPT !.code = r.error])
    ELSE NoError

\* lookupUserByEmail with the code ratelimited classified as Retryable
LookupErrorRatelimitedRetryable(email, r) ==
    IF r.net = "reject" THEN PlainError(Msg("fetch failed"))
    ELSE IF ~ResponseOk(r) THEN HttpError("Failed to lookup user: ", r)
    ELSE IF ~r.jsonOk THEN PlainError(Msg("Unexpected token in JSON"))
    ELSE IF ~r.ok
    THEN IF r.error = "users_not_found"
         THEN FatalError([Msg("User not found with email: ") EXCEPT !.email = email])
         ELSE IF r.error = "invalid_auth" \/ r.error = "not_authed"
         THEN FatalError(Msg("Invalid or missing authentication token"))
         ELSE IF r.error = "account_inactive" \/ r.error = "token_revoked"
         THEN FatalError(Msg("Authentication token is inactive or revoked"))
         ELSE IF r.error = "ratelimited"
         THEN RetryableError(Msg("Slack API rate limit exceeded"))
         ELSE FatalError([Msg("Slack API error: ") EXCEPT !.code = r.error])
    ELSE NoError

\* lookupUserByEmail after its fetch: the error it throws for the response r,
\* NoError when it returns data.user
LookupError(email, r) ==
    IF r.net = "reject" THEN PlainError(Msg("fetch failed"))
    ELSE IF ~ResponseOk(r) THEN HttpError("Failed to lookup user: ", r)
    ELSE IF ~r.jsonOk THEN PlainError(Msg("Unexpected token in JSON"))
    ELSE IF ~r.ok
    THEN IF r.error = "users_not_found"
         THEN FatalError([Msg("User not found with email: ") EXCEPT !.email = email])
         ELSE IF r.error = "invalid_auth" \/ r.error = "not_authed"
         THEN FatalError(Msg("Invalid or missing authentication token"))
         ELSE IF r.error = "account_inactive" \/ r.error = "token_revoked"
         THEN FatalError(Msg("Authentication token is inactive or revoked"))
         ELSE FatalError([Msg("Slack API error: ") EXCEPT !.code = r.error])
    ELSE NoError

\* resetUserSessions without the branch for missing_scope
ResetErrorNoScope(userId, r) ==
    IF r.net = "reject" THEN PlainError(Msg("fetch failed"))
    ELSE IF ~ResponseOk(r) THEN HttpError("Failed to reset sessions: ", r)
    ELSE IF ~r.jsonOk THEN PlainError(Msg("Unexpected token in JSON"))
    ELSE IF ~r.ok
    THEN IF r.error = "user_not_found"
         THEN FatalError([Msg("User not found: ") EXCEPT !.id = userId])
         ELSE IF r.error = "invalid_auth" \/ r.error = "not_authed"
         THEN FatalError(Msg("Invalid or missing authentication token"))
         ELSE IF r.error = "account_inactive" \/ r.error = "token_revoked"
         THEN FatalError(Msg("Authentication token is inactive or revoked"))
         ELSE FatalError([Msg("Slack API error: ") EXCEPT !.code = r.error])
    ELSE NoError

\* resetUserSessions with a rejected fetch classified as Retryable
ResetErrorRejectRetryable(userId, r) ==
    IF r.net = "reject" THEN RetryableError(Msg("fetch failed"))
    ELSE IF ~ResponseOk(r) THEN HttpError("Failed to reset sessions: ", r)
    ELSE IF ~r.jsonOk THEN PlainError(Msg("Unexpected token in JSON"))
    ELSE IF ~r.ok
    THEN IF r.error = "user_not_found"
         THEN FatalError([Msg("User not found: ") EXCEPT !.id = userId])
         ELSE IF r.error = "invalid_auth" \/ r.error = "not_authed"
         THEN FatalError(Msg("Invalid or missing authentication token"))
         ELSE IF r.error = "missing_scope"
         THEN FatalError(Msg("Token missing required scope: admin.users:write"))
         ELSE IF r.error = "account_inactive" \/ r.error = "token_revoked"
         THEN FatalError(Msg("Authentication token is inactive or revoked"))
         ELSE FatalError([Msg("Slack API error: ") EXCEPT !.code = r.error])
    ELSE NoError

\* resetUserSessions after its fetch: the error it throws for the response r,
\* NoError when it returns true
ResetError(userId, r) ==
    IF r.net = "reject" THEN PlainError(Msg("fetch failed"))
    ELSE IF ~ResponseOk(r) THEN HttpError("Failed to reset sessions: ", r)
    ELSE IF ~r.jsonOk THEN PlainError(Msg("Unexpected token in JSON"))
    ELSE IF ~r.ok
    THEN IF r.error = "user_not_found"
         THEN FatalError([Msg("User not found: ") EXCEPT !.id = userId])
         ELSE IF r.error = "invalid_auth" \/ r.error = "not_authed"
         THEN FatalError(Msg("Invalid or missing authentication token"))
         ELSE IF r.error = "missing_scope"
         THEN FatalError(Msg("Token missing required scope: admin.users:write"))
         ELSE IF r.error = "account_inactive" \/ r.error = "token_revoked"
         THEN FatalError(Msg("Authentication token is inactive or revoked"))
         ELSE FatalError([Msg("Slack API error: ") EXCEPT !.code = r.error])
    ELSE NoError

----------------------------------------------------------------------------
(* Inputs: params, context and the responses of the remote endpoints *)

JsUndefined == [t |-> "undefined", s |-> <<>>, n |-> 0]

JsNull == [t |-> "null", s |-> <<>>, n |-> 0]

JsNumber(n) == [t |-> "number", s |-> <<>>, n |-> n]

JsString(s) == [t |-> "string", s |-> s, n |-> 0]

\* "a@a.a"
ValidEmail == <<"a", "@", "a", ".", "a">>

\* values of params.userEmail
UserEmails ==
    {JsUndefined, JsNull, JsNumber(0), JsNumber(7)}
    \cup {JsString(s) : s \in {<<>>, <<" ">>, <<" ", "\t">>, <<"a">>,
                                <<"a", "@", "a">>, <<"a", "@", ".", "a">>,
                                <<" ", "a", "@", "a", ".", "a">>, ValidEmail}}

\* values of params.delay: absent and "2s"
Delays == {JsUndefined, JsString(<<"2", "s">>)}

\* values of params.address: absent and "p"
ParamAddresses == {<<>>, <<"p">>}

\* values of environment.ADDRESS: absent and "e/"
EnvAddresses == {<<>>, <<"e", "/">>}

Params(emails, delays, addresses) ==
    [userEmail : emails, delay : delays, address : addresses]

Secrets(bearer, username, password, code, secret) ==
    [BEARER_AUTH_TOKEN : bearer,
     BASIC_USERNAME : username,
     BASIC_PASSWORD : password,
     OAUTH2_AUTHORIZATION_CODE_ACCESS_TOKEN : code,
     OAUTH2_CLIENT_CREDENTIALS_CLIENT_SECRET : secret]

Environment(address, tokenUrl, clientId, scope, audience, style) ==
    [ADDRESS : address,
     OAUTH2_CLIENT_CREDENTIALS_TOKEN_URL : tokenUrl,
     OAUTH2_CLIENT_CREDENTIALS_CLIENT_ID : clientId,
     OAUTH2_CLIENT_CREDENTIALS_SCOPE : scope,
     OAUTH2_CLIENT_CREDENTIALS_AUDIENCE : audience,
     OAUTH2_CLIENT_CREDENTIALS_AUTH_STYLE : style]

\* every combination of present and absent secrets
AllSecrets ==
    Secrets({<<>>, <<"x">>}, {<<>>, <<"u">>}, {<<>>, <<"p">>},
            {<<>>, <<"y">>}, {<<>>, <<"s">>})

\* environments: the base address and the two required OAuth2 settings,
\* each present or absent
AllEnvironments ==
    Environment(EnvAddresses, {<<>>, <<"t">>}, {<<>>, <<"c">>},
                {<<>>}, {<<>>}, {<<>>})

Contexts(environments, secrets) ==
    [environment : environments, secrets : secrets]

StatusText(status) ==
    CASE status = 200 -> "OK"
      [] status = 403 -> "Forbidden"
      [] status = 429 -> "Too Many Requests"
      [] status = 500 -> "Internal Server Error"
      [] status = 503 -> "Service Unavailable"
      [] OTHER -> ""

\* A response: what fetch() resolved with and what response.json() gives.
\* ok, error and user are the members of a Slack body; access_token is the
\* member of a token body; raw is the body as text.
Response(status) ==
    [net |-> "response", status |-> status, statusText |-> StatusText(status),
     jsonOk |-> TRUE, ok |-> FALSE, error |-> "undefined", user |-> NoUser,
     access_token |-> <<>>, raw |-> ""]

\* no response received yet
NoResponse == [Response(0) EXCEPT !.net = "none"]

\* fetch() rejected: connection failure
Rejected == [Response(0) EXCEPT !.net = "reject"]

FailureStatuses == {403, 429, 500, 503}

UserIds == {<<"U", "1">>, <<"U", "2">>}

LookupErrorCodes ==
    {"users_not_found", "invalid_auth", "not_authed", "account_inactive",
     "token_revoked", "ratelimited", "undefined"}

ResetErrorCodes ==
    {"user_not_found", "invalid_auth", "not_authed", "missing_scope",
     "account_inactive", "token_revoked", "ratelimited", "undefined"}

\* bodies {ok: true, user: {id}}, {ok: true, user: {}} and {ok: true}
LookupOkBodies(status) ==
    {[Response(status) EXCEPT !.ok = TRUE, !.user = [present |-> TRUE, id |-> i]] :
        i \in UserIds \cup {Undefined}}
    \cup {[Response(status) EXCEPT !.ok = TRUE]}

\* bodies {ok: false, error: code}
ErrorBodies(status, codes) ==
    {[Response(status) EXCEPT !.error = c] : c \in codes}

\* a body that is no JSON
BadJson(status) == [Response(status) EXCEPT !.jsonOk = FALSE, !.raw = "<html>"]

LookupResponses ==
    {Rejected, BadJson(200)}
    \cup LookupOkBodies(200) \cup ErrorBodies(200, LookupErrorCodes)
    \cup UNION {ErrorBodies(st, {"users_not_found"}) \cup
                {[Response(st) EXCEPT !.ok = TRUE,
                     !.user = [present |-> TRUE, id |-> <<"U", "1">>]]} :
                st \in FailureStatuses}

ResetResponses ==
    {Rejected, BadJson(200), [Response(200) EXCEPT !.ok = TRUE]}
    \cup ErrorBodies(200, ResetErrorCodes)
    \cup UNION {ErrorBodies(st, {"missing_scope"}) \cup
                {[Response(st) EXCEPT !.ok = TRUE]} : st \in FailureStatuses}

TokenResponses ==
    {Rejected, BadJson(200), BadJson(500),
     [Response(200) EXCEPT !.access_token = <<"k">>, !.raw = "{access_token}"],
     [Response(200) EXCEPT !.raw = "{}"]}
    \cup {[Response(st) EXCEPT !.raw = "{error}"] : st \in FailureStatuses}

----------------------------------------------------------------------------
(* invoke *)

NoResult ==
    [userEmail |-> <<>>, userId |-> <<>>, sessionsRevoked |-> FALSE,
     revokedAt |-> ""]

\* the error entry point was not called
NoErrorCall ==
    [called |-> FALSE, given |-> NoError, thrown |-> NoError, returned |-> FALSE]

\* the halt entry point was not called
NoHaltCall ==
    [called |-> FALSE, at |-> "", params |-> [reason |-> <<>>, userEmail |-> <<>>],
     returned |-> FALSE,
     result |-> [userEmail |-> <<>>, reason |-> <<>>, haltedAt |-> "",
                 cleanupCompleted |-> FALSE]]

\* there is no second invocation
NoInvocation == [pc |-> "none"]

\* setTimeout(resolve, 100): the fixed wait of src/src/script.mjs
setTimeoutFixed(ms) == [ms |-> Millis(100, 0), fired |-> FALSE]

\* setTimeout(resolve, ms): a wait of ms milliseconds, not over yet
setTimeout(ms) == [ms |-> ms, fired |-> FALSE]

InitWith(paramSet, contextSet) ==
    /\ params \in paramSet
    /\ context \in contextSet
    /\ pc = "Validating"
    /\ authHeader = <<>>
    /\ baseUrl = <<>>
    /\ delayMs = Millis(0, 0)
    /\ user = NoUser
    /\ calls = <<>>
    /\ tokenResp = NoResponse
    /\ lookupResp = NoResponse
    /\ resetResp = NoResponse
    /\ timers = <<>>
    /\ result = NoResult
    /\ thrown = NoError
    /\ err = NoError
    /\ errorCall = NoErrorCall
    /\ haltCall = NoHaltCall
    /\ other = NoInvocation
    /\ overlapped = FALSE

Init ==
    InitWith(Params(UserEmails, Delays, ParamAddresses),
             Contexts(AllEnvironments, AllSecrets))

\* a catch block that starts the lookup again after a Retryable error
ThrowRetrying(e) ==
    IF e.class = "RetryableError"
    THEN pc' = "BaseResolving" /\ UNCHANGED <<thrown, err>>
    ELSE pc' = "Failed" /\ thrown' = e /\ err' = Caught(e)

\* throw e inside the try block of invoke: the catch block rethrows
Throw(e) ==
    /\ pc' = "Failed"
    /\ thrown' = e
    /\ err' = Caught(e)

\* a validateInputs that writes the default delay into params
ValidateDefaultingDelay ==
    /\ pc = "Validating"
    /\ IF validateInputs(params) # NoError
       THEN Throw(validateInputs(params))
       ELSE pc' = "AuthResolving" /\ UNCHANGED <<thrown, err>>
    /\ params' = [params EXCEPT !.delay =
                     IF params.delay = JsUndefined
                     THEN JsString(<<"1", "0", "0", "m", "s">>)
                     ELSE params.delay]
    /\ UNCHANGED <<errorCall, haltCall, other, overlapped, context, authHeader,
                   baseUrl, delayMs, user, calls, tokenResp, lookupResp, resetResp,
                   timers, result>>

\* validateInputs(params)
Validate ==
    /\ pc = "Validating"
    /\ IF validateInputs(params) # NoError
       THEN Throw(validateInputs(params))
       ELSE pc' = "AuthResolving" /\ UNCHANGED <<thrown, err>>
    /\ UNCHANGED <<errorCall, haltCall, other, overlapped,
                   params, context, authHeader, baseUrl, delayMs, user, calls,
                   tokenResp, lookupResp, resetResp, timers, result>>

\* an invoke that resolves the base address before the authorization header
ResolveAuthAfterBase ==
    /\ pc = "AuthResolving"
    /\ LET a == getAuthorizationHeader(context)
       IN  CASE BaseURLError(params, context) # NoError ->
                  /\ Throw(BaseURLError(params, context))
                  /\ UNCHANGED <<authHeader, calls>>
             [] BaseURLError(params, context) = NoError /\ a.kind = "header" ->
                  /\ authHeader' = a.header
                  /\ pc' = "BaseResolving"
                  /\ UNCHANGED <<calls, thrown, err>>
             [] BaseURLError(params, context) = NoError /\ a.kind = "fetch" ->
                  /\ calls' = Append(calls, TokenRequest(context))
                  /\ pc' = "TokenExchange"
                  /\ UNCHANGED <<authHeader, thrown, err>>
             [] OTHER ->
                  /\ Throw(a.error)
                  /\ UNCHANGED <<authHeader, calls>>
    /\ UNCHANGED <<errorCall, haltCall, other, overlapped,
                   params, context, baseUrl, delayMs, user, tokenResp,
                   lookupResp, resetResp, timers, result>>

\* getAuthorizationHeader(context) without await on the token request: the
\* invocation goes on with the promise
ResolveAuthNotAwaiting ==
    /\ pc = "AuthResolving"
    /\ LET a == getAuthorizationHeader(context)
       IN  CASE a.kind = "header" ->
                  /\ authHeader' = a.header
                  /\ pc' = "BaseResolving"
                  /\ UNCHANGED <<calls, thrown, err>>
             [] a.kind = "fetch" ->
                  /\ calls' = Append(calls, TokenRequest(context))
                  /\ authHeader' = BearerPrefix
                  /\ pc' = "BaseResolving"
                  /\ UNCHANGED <<thrown, err>>
             [] OTHER ->
                  /\ Throw(a.error)
                  /\ UNCHANGED <<authHeader, calls>>
    /\ UNCHANGED <<errorCall, haltCall, other, overlapped,
                   params, context, baseUrl, delayMs, user, tokenResp,
                   lookupResp, resetResp, timers, result>>

\* await getAuthorizationHeader(context), up to the token request
ResolveAuth ==
    /\ pc = "AuthResolving"
    /\ LET a == getAuthorizationHeader(context)
       IN  CASE a.kind = "header" ->
                  /\ authHeader' = a.header
                  /\ pc' = "BaseResolving"
                  /\ UNCHANGED <<calls, thrown, err>>
             [] a.kind = "fetch" ->
                  /\ calls' = Append(calls, TokenRequest(context))
                  /\ pc' = "TokenExchange"
                  /\ UNCHANGED <<authHeader, thrown, err>>
             [] OTHER ->
                  /\ Throw(a.error)
                  /\ UNCHANGED <<authHeader, calls>>
    /\ UNCHANGED <<errorCall, haltCall, other, overlapped,
                   params, context, baseUrl, delayMs, user, tokenResp,
                   lookupResp, resetResp, timers, result>>

\* the token endpoint answers: the rest of getClientCredentialsToken and
\* of getAuthorizationHeader
TokenResponse ==
    /\ pc = "TokenExchange"
    /\ \E r \in TokenResponses :
        /\ tokenResp' = r
        /\ IF TokenError(r) # NoError
           THEN Throw(TokenError(r)) /\ UNCHANGED authHeader
           ELSE /\ authHeader' = BearerPrefix \o r.access_token
                /\ pc' = "BaseResolving"
                /\ UNCHANGED <<thrown, err>>
    /\ UNCHANGED <<errorCall, haltCall, other, overlapped,
                   params, context, baseUrl, delayMs, user, calls, lookupResp,
                   resetResp, timers, result>>

\* parseDuration(delay) for a delay that is no string: a number other
\* than 0 has no match method
DurationError(d) ==
    IF d.t = "number" /\ d.n # 0
    THEN PlainError(Msg("durationStr.match is not a function"))
    ELSE NoError

\* getBaseURL, parseDuration and the fetch of lookupUserByEmail
StartLookup ==
    /\ pc = "BaseResolving"
    /\ IF BaseURLError(params, context) # NoError
       THEN /\ Throw(BaseURLError(params, context))
            /\ UNCHANGED <<baseUrl, delayMs, calls>>
       ELSE IF DurationError(params.delay) # NoError
       THEN /\ Throw(DurationError(params.delay))
            /\ baseUrl' = getBaseURL(params, context)
            /\ UNCHANGED <<delayMs, calls>>
       ELSE /\ baseUrl' = getBaseURL(params, context)
            /\ delayMs' = parseDuration(params.delay)
            /\ calls' = Append(calls,
                   LookupRequest(params.userEmail.s, authHeader, baseUrl'))
            /\ pc' = "LookingUp"
            /\ UNCHANGED <<thrown, err>>
    /\ UNCHANGED <<errorCall, haltCall, other, overlapped,
                   params, context, authHeader, user, tokenResp, lookupResp,
                   resetResp, timers, result>>

\* the lookup endpoint answers: the rest of lookupUserByEmail, then
\* user.id is read and the delay starts
LookupResponse ==
    /\ pc = "LookingUp"
    /\ \E r \in LookupResponses :
        /\ lookupResp' = r
        /\ IF LookupError(params.userEmail.s, r) # NoError
           THEN /\ Throw(LookupError(params.userEmail.s, r))
                /\ UNCHANGED <<user, timers>>
           ELSE IF ~r.user.present
           THEN /\ Throw(PlainError(Msg(
                    "Cannot read properties of undefined (reading 'id')")))
                /\ user' = r.user
                /\ UNCHANGED timers
           ELSE /\ user' = r.user
                /\ timers' = Append(timers, setTimeout(delayMs))
                /\ pc' = "Delaying"
                /\ UNCHANGED <<thrown, err>>
    /\ UNCHANGED <<errorCall, haltCall, other, overlapped,
                   params, context, authHeader, baseUrl, delayMs, calls,
                   tokenResp, resetResp, result>>

\* an invoke that resolves the header again before resetUserSessions: in
\* client-credentials mode a second token request
TimerFiresWithTokenRefresh ==
    /\ pc = "Delaying"
    /\ calls' = (IF AuthMethod(context) = "client_credentials"
                 THEN Append(calls, TokenRequest(context))
                 ELSE calls)
                \o <<ResetRequest(user.id, authHeader, baseUrl)>>
    /\ pc' = "Invalidating"
    /\ timers' = [timers EXCEPT ![Len(timers)].fired = TRUE]
    /\ UNCHANGED <<errorCall, haltCall, other, overlapped, params, context,
                   authHeader, baseUrl, delayMs, user, tokenResp, lookupResp,
                   resetResp, result, thrown, err>>

\* an invoke that returns its result at the end of the wait, without the
\* call of resetUserSessions
TimerFiresWithoutReset ==
    /\ pc = "Delaying"
    /\ pc' = "Succeeded"
    /\ timers' = [timers EXCEPT ![Len(timers)].fired = TRUE]
    /\ result' = [userEmail |-> params.userEmail.s, userId |-> user.id,
                  sessionsRevoked |-> TRUE, revokedAt |-> "ISO timestamp"]
    /\ UNCHANGED <<errorCall, haltCall, other, overlapped, params, context,
                   authHeader, baseUrl, delayMs, user, calls, tokenResp,
                   lookupResp, resetResp, thrown, err>>

\* the delay is over: the fetch of resetUserSessions
TimerFires ==
    /\ pc = "Delaying"
    /\ calls' = Append(calls, ResetRequest(user.id, authHeader, baseUrl))
    /\ pc' = "Invalidating"
    /\ timers' = [timers EXCEPT ![Len(timers)].fired = TRUE]
    /\ UNCHANGED <<errorCall, haltCall, other, overlapped,
                   params, context,
                   authHeader, baseUrl, delayMs, user, tokenResp, lookupResp,
                   resetResp, result, thrown, err>>

\* the reset endpoint answers: the rest of resetUserSessions, then the
\* result is assembled
ResetResponse ==
    /\ pc = "Invalidating"
    /\ \E r \in ResetResponses :
        /\ resetResp' = r
        /\ IF ResetError(user.id, r) # NoError
           THEN Throw(ResetError(user.id, r)) /\ UNCHANGED result
           ELSE /\ result' = [userEmail |-> params.userEmail.s,
                              userId |-> user.id,
                              sessionsRevoked |-> TRUE,
                              revokedAt |-> "ISO timestamp"]
                /\ pc' = "Succeeded"
                /\ UNCHANGED <<thrown, err>>
    /\ UNCHANGED <<errorCall, haltCall, other, overlapped,
                   params, context, authHeader, baseUrl, delayMs, user, calls,
                   tokenResp, lookupResp, timers>>

Next ==
    \/ Validate
    \/ ResolveAuth
    \/ TokenResponse
    \/ StartLookup
    \/ LookupResponse
    \/ TimerFires
    \/ ResetResponse

Spec == Init /\ [][Next]_vars

\* invoke with the progress the runtime gives it: synchronous code runs on,
\* a fetch that was issued settles, and a timer that was started fires.
SpecLive == Spec /\ WF_vars(Next)

----------------------------------------------------------------------------
(* error *)

\* throw undefined: params without an error member
UndefinedError == [class |-> "undefined", retryable |-> FALSE, msg |-> Msg("")]

\* values of params.error: the errors invoke throws, the Error of the
\* tests, and none
ErrorValues ==
    {RetryableError(Msg("Slack API rate limit exceeded")),
     FatalError(Msg("Invalid email format")),
     PlainError(Msg("Network timeout")),
     UndefinedError}

\* an error handler that classifies what it rethrows, as invoke does
errorHandlerWrapping(p) ==
    [returned |-> FALSE, thrown |-> Caught(p.error)]

\* error(params, _context): const { error } = params; throw error;
errorHandler(p) ==
    [returned |-> FALSE, thrown |-> p.error]

\* the host calls the error entry point, with the error invoke threw or
\* with any other error value
ErrorEntry ==
    /\ ~errorCall.called
    /\ \E p \in [userEmail : {params.userEmail},
                 error : ErrorValues \cup (IF pc = "Failed" THEN {err} ELSE {})] :
          errorCall' = [called |-> TRUE, given |-> p.error,
                        thrown |-> errorHandler(p).thrown,
                        returned |-> errorHandler(p).returned]
    /\ UNCHANGED <<haltCall, other, overlapped, params, context, pc, authHeader,
                   baseUrl, delayMs, user, calls, tokenResp, lookupResp, resetResp,
                   timers, result, thrown, err>>

----------------------------------------------------------------------------
(* halt *)

Unknown == <<"u", "n", "k", "n", "o", "w", "n">>

\* values of params.reason: absent, 'timeout' and 'system_shutdown'
HaltReasons ==
    {<<>>, <<"t", "i", "m", "e", "o", "u", "t">>,
     <<"s", "y", "s", "t", "e", "m", "_", "s", "h", "u", "t", "d", "o", "w", "n">>}

\* values of params.userEmail given to halt: absent, the email of the
\* invocation, and another one
HaltEmails == {<<>>, ValidEmail, <<"b", "@", "b", ".", "b">>}

\* a halt that returns the members of params as they are
haltHandlerEchoing(p) ==
    [returned |-> TRUE,
     result |-> [userEmail |-> p.userEmail, reason |-> p.reason,
                 haltedAt |-> "ISO timestamp", cleanupCompleted |-> TRUE]]

\* halt(params, _context): userEmail || 'unknown', reason || 'unknown'
haltHandler(p) ==
    [returned |-> TRUE,
     result |-> [userEmail |-> IF p.userEmail # <<>> THEN p.userEmail ELSE Unknown,
                 reason |-> IF p.reason # <<>> THEN p.reason ELSE Unknown,
                 haltedAt |-> "ISO timestamp",
                 cleanupCompleted |-> TRUE]]

\* a halt that gives up the invocation in progress
HaltEntryCancelling ==
    /\ ~haltCall.called
    /\ \E p \in [reason : HaltReasons, userEmail : HaltEmails] :
          haltCall' = [called |-> TRUE, at |-> pc, params |-> p,
                       returned |-> haltHandler(p).returned,
                       result |-> haltHandler(p).result]
    /\ pc' = IF pc \in {"Succeeded", "Failed"} THEN pc ELSE "Failed"
    /\ UNCHANGED <<errorCall, other, overlapped, params, context, authHeader,
                   baseUrl, delayMs, user, calls, tokenResp, lookupResp, resetResp,
                   timers, result, thrown, err>>

\* the host calls the halt entry point, at any time; at is the position of
\* the invocation at that time
HaltEntry ==
    /\ ~haltCall.called
    /\ \E p \in [reason : HaltReasons, userEmail : HaltEmails] :
          haltCall' = [called |-> TRUE, at |-> pc, params |-> p,
                       returned |-> haltHandler(p).returned,
                       result |-> haltHandler(p).result]
    /\ UNCHANGED <<errorCall, other, overlapped, params, context, pc, authHeader,
                   baseUrl, delayMs, user, calls, tokenResp, lookupResp, resetResp,
                   timers, result, thrown, err>>

EntryContexts ==
    Contexts(Environment({<<"e">>}, {<<"t">>}, {<<"c">>}, {<<>>}, {<<>>}, {<<>>}),
             Secrets({<<>>, <<"x">>}, {<<>>}, {<<>>}, {<<>>}, {<<>>, <<"s">>}))

InitEntry ==
    InitWith(Params({JsString(ValidEmail), JsString(<<"a">>)}, {JsUndefined}, {<<>>}),
             EntryContexts)

NextEntry ==
    \/ Next
    \/ ErrorEntry
    \/ HaltEntry

SpecEntry == InitEntry /\ [][NextEntry]_vars

\* The entry points with the progress the runtime gives an invocation: a
\* timer that was started fires, and a fetch that was issued settles.
SpecEntryLive == SpecEntry /\ WF_vars(Next)

----------------------------------------------------------------------------
(* Two invocations.  invoke keeps everything in the constants of one call,  *)
(* and the module has no variable of its own: a second call has its own     *)
(* locals.  The variables of this model are the locals of the invocation    *)
(* whose code runs; the locals of the other one are kept in other, and the  *)
(* event loop changes from one to the other between two steps.              *)

\* the locals of the invocation that runs
Locals ==
    [params |-> params, context |-> context, pc |-> pc, authHeader |-> authHeader,
     baseUrl |-> baseUrl, delayMs |-> delayMs, user |-> user, calls |-> calls,
     tokenResp |-> tokenResp, lookupResp |-> lookupResp, resetResp |-> resetResp,
     timers |-> timers, result |-> result, thrown |-> thrown, err |-> err]

\* the locals of a call invoke(p, c) before its first statement
Fresh(p, c) ==
    [params |-> p, context |-> c, pc |-> "Validating", authHeader |-> <<>>,
     baseUrl |-> <<>>, delayMs |-> Millis(0, 0), user |-> NoUser, calls |-> <<>>,
     tokenResp |-> NoResponse, lookupResp |-> NoResponse, resetResp |-> NoResponse,
     timers |-> <<>>, result |-> NoResult, thrown |-> NoError, err |-> NoError]

\* a call invoke(p, c) the host has not made yet
Pending(p, c) == [Fresh(p, c) EXCEPT !.pc = "Pending"]

\* an invoke that remembers the failure of the call before it, and then
\* rejects at once
EntryAfterFailure(p, c, prev) ==
    IF prev.pc = "Failed"
    THEN [Fresh(p, c) EXCEPT
            !.pc = "Failed",
            !.thrown = RetryableError(Msg("previous invocation failed")),
            !.err = RetryableError(Msg("previous invocation failed"))]
    ELSE Fresh(p, c)

\* the locals at the entry of invoke(p, c), prev being the locals of the
\* invocation that ran before: nothing of prev is read
Entry(p, c, prev) == Fresh(p, c)

\* an event loop over invocations that keep the user record in a variable
\* of the module
SwitchSharingUser ==
    /\ other.pc # "none"
    /\ LET incoming == IF other.pc = "Pending"
                       THEN Entry(other.params, other.context, Locals)
                       ELSE other
       IN  /\ params' = incoming.params
           /\ context' = incoming.context
           /\ pc' = incoming.pc
           /\ authHeader' = incoming.authHeader
           /\ baseUrl' = incoming.baseUrl
           /\ delayMs' = incoming.delayMs
           /\ user' = user
           /\ calls' = incoming.calls
           /\ tokenResp' = incoming.tokenResp
           /\ lookupResp' = incoming.lookupResp
           /\ resetResp' = incoming.resetResp
           /\ timers' = incoming.timers
           /\ result' = incoming.result
           /\ thrown' = incoming.thrown
           /\ err' = incoming.err
    /\ other' = Locals
    /\ overlapped' = (overlapped \/ pc \notin {"Validating", "Succeeded", "Failed"})
    /\ UNCHANGED <<errorCall, haltCall>>

\* the event loop leaves the invocation that runs at its await (or the host
\* calls invoke) and continues the other one
Switch ==
    /\ other.pc # "none"
    /\ LET incoming == IF other.pc = "Pending"
                       THEN Entry(other.params, other.context, Locals)
                       ELSE other
       IN  /\ params' = incoming.params
           /\ context' = incoming.context
           /\ pc' = incoming.pc
           /\ authHeader' = incoming.authHeader
           /\ baseUrl' = incoming.baseUrl
           /\ delayMs' = incoming.delayMs
           /\ user' = incoming.user
           /\ calls' = incoming.calls
           /\ tokenResp' = incoming.tokenResp
           /\ lookupResp' = incoming.lookupResp
           /\ resetResp' = incoming.resetResp
           /\ timers' = incoming.timers
           /\ result' = incoming.result
           /\ thrown' = incoming.thrown
           /\ err' = incoming.err
    /\ other' = Locals
    /\ overlapped' = (overlapped \/ pc \notin {"Validating", "Succeeded", "Failed"})
    /\ UNCHANGED <<errorCall, haltCall>>

\* the inputs of the two invocations: a valid and an invalid email, a
\* bearer token or a client-credentials secret
TwoParams ==
    Params({JsString(ValidEmail), JsString(<<"a">>)}, {JsUndefined}, {<<>>})

TwoContexts ==
    Contexts(Environment({<<"e">>}, {<<"t">>}, {<<"c">>}, {<<>>}, {<<>>}, {<<>>}),
             {s \in Secrets({<<>>, <<"x">>}, {<<>>}, {<<>>}, {<<>>}, {<<>>, <<"s">>}) :
                 (s.BEARER_AUTH_TOKEN = <<>>)
                     # (s.OAUTH2_CLIENT_CREDENTIALS_CLIENT_SECRET = <<>>)})

InitTwo ==
    /\ params \in TwoParams
    /\ context \in TwoContexts
    /\ pc = "Validating"
    /\ authHeader = <<>>
    /\ baseUrl = <<>>
    /\ delayMs = Millis(0, 0)
    /\ user = NoUser
    /\ calls = <<>>
    /\ tokenResp = NoResponse
    /\ lookupResp = NoResponse
    /\ resetResp = NoResponse
    /\ timers = <<>>
    /\ result = NoResult
    /\ thrown = NoError
    /\ err = NoError
    /\ errorCall = NoErrorCall
    /\ haltCall = NoHaltCall
    /\ other \in {Pending(p, c) : p \in TwoParams, c \in TwoContexts}
    /\ overlapped = FALSE

NextTwo ==
    \/ Next
    \/ Switch

SpecTwo == InitTwo /\ [][NextTwo]_vars

----------------------------------------------------------------------------
(* Input slice for the email format: every string over EmailChars of at    *)
(* most MaxEmailLen characters, with one context per kind of credential.   *)

MaxEmailLen == 5

EmailChars == {"a", "@", ".", " "}

EmailStrings == UNION {[1..k -> EmailChars] : k \in 0..MaxEmailLen}

EmailContexts ==
    Contexts(Environment({<<"e", "/">>}, {<<"t">>}, {<<"c">>}, {<<>>}, {<<>>}, {<<>>}),
             Secrets({<<>>, <<"x">>}, {<<>>}, {<<>>}, {<<>>}, {<<>>, <<"s">>}))

InitEmail ==
    InitWith(Params({JsString(s) : s \in EmailStrings}, {JsUndefined}, {<<>>}),
             EmailContexts)

SpecEmail == InitEmail /\ [][Next]_vars

----------------------------------------------------------------------------
(* Input slice for the base address: params.address and environment.ADDRESS *)
(* absent, plain, and with one or two trailing slashes, with a bearer token  *)
(* or a client-credentials secret.                                           *)

SliceParamAddresses ==
    {<<>>, <<"p">>, <<"p", "/">>, <<"p", "/", "/">>, <<"/">>}

SliceEnvAddresses ==
    {<<>>, <<"e">>, <<"e", "/">>, <<"e", "/", "/">>}

AddressContexts ==
    Contexts(Environment(SliceEnvAddresses, {<<"t">>}, {<<"c">>}, {<<>>}, {<<>>}, {<<>>}),
             {s \in Secrets({<<>>, <<"x">>}, {<<>>}, {<<>>}, {<<>>}, {<<>>, <<"s">>}) :
                 (s.BEARER_AUTH_TOKEN = <<>>)
                     # (s.OAUTH2_CLIENT_CREDENTIALS_CLIENT_SECRET = <<>>)})

InitAddress ==
    InitWith(Params({JsString(ValidEmail)}, {JsUndefined}, SliceParamAddresses),
             AddressContexts)

SpecAddress == InitAddress /\ [][Next]_vars

----------------------------------------------------------------------------
(* Input slice for the delay: every string over DelayChars of at most     *)
(* MaxDelayLen characters, the strings of the tests, and the values that   *)
(* are no strings; a bearer token, and invoke up to its lookup request.    *)

MaxDelayLen == 4

DelayChars == {"0", "1", "5", ".", "m", "s", "h", "M", "x"}

DelayStrings == UNION {[1..k -> DelayChars] : k \in 0..MaxDelayLen}

\* '500ms' and 'invalid'
TestDelays ==
    {<<"5", "0", "0", "m", "s">>, <<"i", "n", "v", "a", "l", "i", "d">>}

\* delay: null, delay: 0 and delay: 500
NonStringDelays == {JsNull, JsNumber(0), JsNumber(500)}

DurationContexts ==
    Contexts(Environment({<<"e">>}, {<<>>}, {<<>>}, {<<>>}, {<<>>}, {<<>>}),
             Secrets({<<"x">>}, {<<>>}, {<<>>}, {<<>>}, {<<>>}))

InitDuration ==
    InitWith(Params({JsString(ValidEmail)},
                    {JsString(s) : s \in DelayStrings \cup TestDelays}
                        \cup {JsUndefined} \cup NonStringDelays,
                    {<<>>}),
             DurationContexts)

NextDuration ==
    \/ Validate
    \/ ResolveAuth
    \/ StartLookup

SpecDuration == InitDuration /\ [][NextDuration]_vars

\* The token exchange: the optional OAuth2 settings, each present or
\* absent, and the auth style absent, 'InParams', 'InHeader' and 'inparams'.
AuthStyles ==
    {<<>>, InParams, <<"I", "n", "H", "e", "a", "d", "e", "r">>,
     <<"i", "n", "p", "a", "r", "a", "m", "s">>}

TokenContexts ==
    Contexts(Environment({<<"e">>}, {<<"t">>}, {<<"c">>},
                         {<<>>, <<"r">>}, {<<>>, <<"a">>}, AuthStyles),
             Secrets({<<>>}, {<<>>}, {<<>>}, {<<>>}, {<<"s">>}))

InitToken ==
    InitWith(Params({JsString(ValidEmail)}, {JsUndefined}, {<<>>}), TokenContexts)

SpecToken == InitToken /\ [][Next]_vars

\* Bearer tokens: up to MaxTokenParts pieces, each 'Bearer ', 'Bearer',
\* 'bearer ' or 'x'.
MaxTokenParts == 3

TokenParts ==
    {BearerPrefix, <<"B", "e", "a", "r", "e", "r">>,
     <<"b", "e", "a", "r", "e", "r", " ">>, <<"x">>}

RECURSIVE TokensOf(_)
TokensOf(k) ==
    IF k = 0 THEN {<<>>}
    ELSE {p \o t : p \in TokenParts, t \in TokensOf(k - 1)}

BearerTokens == UNION {TokensOf(k) : k \in 1..MaxTokenParts}

BearerContexts ==
    Contexts(Environment({<<"e">>}, {<<>>}, {<<>>}, {<<>>}, {<<>>}, {<<>>}),
             Secrets(BearerTokens, {<<>>}, {<<>>}, {<<>>}, {<<>>}))

InitBearer ==
    InitWith(Params({JsString(ValidEmail)}, {JsUndefined}, {<<>>}), BearerContexts)

SpecBearer == InitBearer /\ [][NextDuration]_vars

----------------------------------------------------------------------------
(* Properties *)

\* the fetch() calls made to the Slack API (all but the token exchange)
SlackCalls == SelectSeq(calls, LAMBDA c : c.op # "token")

CallsOf(op) == {i \in 1..Len(calls) : calls[i].op = op}

\* a response was received, with a status in 200..299
Is2xx(r) == r.net = "response" /\ r.status \in 200..299

\* a response was received, with a status outside 200..299
IsNon2xx(r) == r.net = "response" /\ r.status \notin 200..299

\* a 2xx response with a JSON body whose ok is true / false
IsOkTrue(r) == Is2xx(r) /\ r.jsonOk /\ r.ok

IsOkFalse(r) == Is2xx(r) /\ r.jsonOk /\ ~r.ok

\* a response with status 429 or a status >= 500
IsTransient(r) == r.net = "response" /\ (r.status = 429 \/ r.status >= 500)

\* C1: when the lookup answers 2xx {ok: true, user: {id: U}} and the reset
\* answers 2xx {ok: true}, invoke has returned {userEmail: the input email,
\* userId: U, sessionsRevoked: true, revokedAt: a timestamp} after exactly two
\* Slack API calls: the GET of /api/users.lookupByEmail, then the POST of
\* /api/admin.users.session.reset.
C1_SuccessResult ==
    (/\ IsOkTrue(lookupResp)
     /\ lookupResp.user.present
     /\ lookupResp.user.id # Undefined
     /\ IsOkTrue(resetResp))
    => /\ pc = "Succeeded"
       /\ err = NoError
       /\ result.userEmail = params.userEmail.s
       /\ result.userId = lookupResp.user.id
       /\ result.sessionsRevoked = TRUE
       /\ result.revokedAt # ""
       /\ Len(SlackCalls) = 2
       /\ SlackCalls[1].method = "GET"
       /\ SlackCalls[1].path = "/api/users.lookupByEmail"
       /\ SlackCalls[2].method = "POST"
       /\ SlackCalls[2].path = "/api/admin.users.session.reset"

C1_Witness ==
    /\ pc = "Succeeded"
    /\ lookupResp.user.id = <<"U", "2">>
    /\ params.address = <<"p">>

\* C2: in every state at most one lookup request and at most one reset
\* request have been issued, and a failed invocation has issued its last
\* request: nothing is retried, also after a Retryable error.
C2_AtMostOneCallEach ==
    /\ Cardinality(CallsOf("lookup")) <= 1
    /\ Cardinality(CallsOf("reset")) <= 1
    /\ pc = "Failed" => ~ENABLED Next

C2_Witness ==
    /\ pc = "Failed"
    /\ err.retryable
    /\ resetResp.status = 429
    /\ Cardinality(CallsOf("lookup")) = 1
    /\ Cardinality(CallsOf("reset")) = 1

\* C3: a lookup that ended in an error (a rejected request, a non-2xx status,
\* a body that is no JSON or has ok false) makes invoke fail without a reset
\* request; a reset request is issued only after a lookup that answered 2xx
\* with ok true.
C3_NoResetAfterLookupError ==
    /\ (lookupResp.net # "none" /\ ~IsOkTrue(lookupResp))
           => (pc = "Failed" /\ CallsOf("reset") = {})
    /\ CallsOf("reset") # {} => IsOkTrue(lookupResp)

C3_Witness ==
    /\ pc = "Failed"
    /\ lookupResp.status = 200
    /\ lookupResp.error = "users_not_found"
    /\ CallsOf("lookup") # {}

\* C4: a failure of invoke is Retryable exactly when the lookup response or
\* the reset response had status 429 or a status >= 500; every other
\* failure is Fatal.
C4_RetryableIffTransientStatus ==
    pc = "Failed" =>
        /\ err.class \in {"RetryableError", "FatalError"}
        /\ err.retryable = (err.class = "RetryableError")
        /\ err.retryable = (IsTransient(lookupResp) \/ IsTransient(resetResp))

C4_Witness ==
    /\ pc = "Failed"
    /\ err.retryable
    /\ resetResp.status = 503

\* the error the claim C5 gives for a non-2xx response of an endpoint
\* operation whose Fatal message starts with `what`
ExpectedHttpError(what, r) ==
    /\ pc = "Failed"
    /\ r.status = 429 =>
           /\ err.class = "RetryableError" /\ err.retryable
           /\ err.msg.text = "Slack API rate limit exceeded"
    /\ r.status >= 500 => err.class = "RetryableError" /\ err.retryable
    /\ (r.status # 429 /\ r.status < 500) =>
           /\ err.class = "FatalError" /\ ~err.retryable
           /\ err.msg.text = what
           /\ err.msg.status = r.status
           /\ err.msg.statusText = r.statusText
    /\ err.msg.code = "" /\ err.msg.email = <<>> /\ err.msg.id = <<>>

\* C5: for the lookup and for the reset, a non-2xx response gives: status 429,
\* Retryable 'Slack API rate limit exceeded'; a status >= 500, Retryable; any
\* other status, Fatal with the status code and status text in the message.
\* Nothing of the body reaches the error.
C5_HttpClassification ==
    /\ IsNon2xx(lookupResp) => ExpectedHttpError("Failed to lookup user: ", lookupResp)
    /\ IsNon2xx(resetResp) => ExpectedHttpError("Failed to reset sessions: ", resetResp)

C5_Witness ==
    /\ pc = "Failed"
    /\ lookupResp.status = 403
    /\ lookupResp.ok

\* C6: for the lookup, a 2xx response whose body has ok false gives a Fatal
\* error: users_not_found 'User not found with email: <email>'; invalid_auth
\* and not_authed 'Invalid or missing authentication token'; account_inactive
\* and token_revoked 'Authentication token is inactive or revoked'; any other
\* code 'Slack API error: <code>'.  It is never Retryable.
C6_LookupApplicationErrors ==
    IsOkFalse(lookupResp) =>
        /\ pc = "Failed"
        /\ err.class = "FatalError"
        /\ ~err.retryable
        /\ ~err.msg.unexpected
        /\ lookupResp.error = "users_not_found" =>
               /\ err.msg.text = "User not found with email: "
               /\ err.msg.email = params.userEmail.s
        /\ lookupResp.error \in {"invalid_auth", "not_authed"} =>
               err.msg = Msg("Invalid or missing authentication token")
        /\ lookupResp.error \in {"account_inactive", "token_revoked"} =>
               err.msg = Msg("Authentication token is inactive or revoked")
        /\ lookupResp.error \notin {"users_not_found", "invalid_auth", "not_authed",
                                    "account_inactive", "token_revoked"} =>
               /\ err.msg.text = "Slack API error: "
               /\ err.msg.code = lookupResp.error

C6_Witness ==
    /\ pc = "Failed"
    /\ lookupResp.status = 200
    /\ lookupResp.error = "ratelimited"

\* C7: for the reset, a 2xx response whose body has ok false gives a Fatal
\* error: user_not_found; invalid_auth and not_authed 'Invalid or missing
\* authentication token'; missing_scope exactly 'Token missing required
\* scope: admin.users:write'; account_inactive and token_revoked
\* 'Authentication token is inactive or revoked'; any other code 'Slack API
\* error: <code>'.  A 2xx response whose body has ok true makes it succeed.
C7_ResetApplicationErrors ==
    /\ IsOkFalse(resetResp) =>
        /\ pc = "Failed"
        /\ err.class = "FatalError"
        /\ ~err.retryable
        /\ ~err.msg.unexpected
        /\ resetResp.error \in {"invalid_auth", "not_authed"} =>
               err.msg = Msg("Invalid or missing authentication token")
        /\ resetResp.error = "missing_scope" =>
               err.msg = Msg("Token missing required scope: admin.users:write")
        /\ resetResp.error \in {"account_inactive", "token_revoked"} =>
               err.msg = Msg("Authentication token is inactive or revoked")
        /\ resetResp.error \notin {"user_not_found", "invalid_auth", "not_authed",
                                   "missing_scope", "account_inactive",
                                   "token_revoked"} =>
               /\ err.msg.text = "Slack API error: "
               /\ err.msg.code = resetResp.error
    /\ IsOkTrue(resetResp) => (pc = "Succeeded" /\ err = NoError)

C7_Witness ==
    /\ pc = "Failed"
    /\ resetResp.status = 200
    /\ resetResp.error = "missing_scope"

\* userEmail is missing, no string, empty or made of whitespace only
BlankEmail(v) ==
    \/ v.t # "string"
    \/ \A k \in 1..Len(v.s) : v.s[k] \in WhiteSpace

\* C8: when userEmail is missing, not a string, empty or whitespace-only,
\* invoke fails Fatal with 'Invalid or missing userEmail parameter' as its
\* first step and never issues a network call, whatever the context is.
C8_BlankEmailRejected ==
    BlankEmail(params.userEmail) =>
        /\ calls = <<>>
        /\ pc \in {"Validating", "Failed"}
        /\ pc = "Failed" =>
               err = FatalError(Msg("Invalid or missing userEmail parameter"))

C8_Witness ==
    /\ pc = "Failed"
    /\ params.userEmail = JsString(<<" ", "\t">>)
    /\ context.secrets.BEARER_AUTH_TOKEN # <<>>
    /\ context.environment.ADDRESS # <<>>

\* s has the two parts local@domain: one "@" with at least one character
\* on each side, and no whitespace
LocalAtDomain(s) ==
    /\ \A k \in 1..Len(s) : s[k] \notin WhiteSpace
    /\ \E i \in 2..(Len(s) - 1) :
        /\ s[i] = "@"
        /\ \A k \in 1..Len(s) : s[k] = "@" => k = i

\* s is local@domain and the domain has a "." with at least one character
\* on each side
LocalAtDottedDomain(s) ==
    /\ LocalAtDomain(s)
    /\ \E i \in 1..Len(s) : \E j \in (i + 2)..(Len(s) - 1) :
        s[i] = "@" /\ s[j] = "."

\* invoke got past validateInputs
PassedValidation ==
    /\ pc # "Validating"
    /\ pc = "Failed" =>
           err.msg.text \notin {"Invalid or missing userEmail parameter",
                                "Invalid email format"}

\* invoke failed in validateInputs with 'Invalid email format', without a
\* network call
RejectedAsInvalidFormat ==
    /\ pc = "Failed"
    /\ err = FatalError(Msg("Invalid email format"))
    /\ calls = <<>>

\* C9 as stated: every string that is not local@domain is rejected with
\* 'Invalid email format' without a network call, and every string that is
\* local@domain passes validation.
C9_Original ==
    (params.userEmail.t = "string" /\ pc # "Validating") =>
        IF LocalAtDomain(params.userEmail.s)
        THEN PassedValidation
        ELSE RejectedAsInvalidFormat

\* C9, amended: every string that is not empty and not whitespace-only and
\* is not local@domain with a dotted domain is rejected with 'Invalid email
\* format' without a network call, and every string that is local@domain
\* with a dotted domain passes validation.
C9_EmailFormat ==
    (/\ params.userEmail.t = "string"
     /\ ~BlankEmail(params.userEmail)
     /\ pc # "Validating") =>
        IF LocalAtDottedDomain(params.userEmail.s)
        THEN PassedValidation
        ELSE RejectedAsInvalidFormat

C9_Witness ==
    /\ pc = "Failed"
    /\ params.userEmail.s = <<"a", "@", "a">>
    /\ context.secrets.BEARER_AUTH_TOKEN # <<>>

\* none of the recognized credentials is present
NoCredentials(secrets) ==
    /\ secrets.BEARER_AUTH_TOKEN = <<>>
    /\ ~(secrets.BASIC_USERNAME # <<>> /\ secrets.BASIC_PASSWORD # <<>>)
    /\ secrets.OAUTH2_AUTHORIZATION_CODE_ACCESS_TOKEN = <<>>
    /\ secrets.OAUTH2_CLIENT_CREDENTIALS_CLIENT_SECRET = <<>>

\* C10: with a valid userEmail and none of the recognized credentials in the
\* context, invoke fails Fatal, in its auth step, with a message that holds
\* the 'No authentication configured. Provide one of: ...' text, and never
\* issues a network call.
C10_NoCredentialsRejected ==
    (params.userEmail = JsString(ValidEmail) /\ NoCredentials(context.secrets)) =>
        /\ calls = <<>>
        /\ pc \in {"Validating", "AuthResolving", "Failed"}
        /\ pc = "Failed" =>
               /\ err.class = "FatalError"
               /\ ~err.retryable
               /\ err.msg.text = NoAuthMessage

C10_Witness ==
    /\ pc = "Failed"
    /\ params.userEmail = JsString(ValidEmail)
    /\ context.secrets.BASIC_USERNAME # <<>>
    /\ context.secrets.BASIC_PASSWORD = <<>>
    /\ context.secrets.BEARER_AUTH_TOKEN = <<>>
    /\ context.secrets.OAUTH2_AUTHORIZATION_CODE_ACCESS_TOKEN = <<>>
    /\ context.secrets.OAUTH2_CLIENT_CREDENTIALS_CLIENT_SECRET = <<>>
    /\ context.environment.ADDRESS # <<>>

\* invoke has an authorization header: the resolver returned
AuthResolved ==
    pc \in {"BaseResolving", "LookingUp", "Delaying", "Invalidating", "Succeeded"}

\* the credentials of the claim C11, by priority
HasBearer(secrets) == secrets.BEARER_AUTH_TOKEN # <<>>

HasBasic(secrets) ==
    secrets.BASIC_USERNAME # <<>> /\ secrets.BASIC_PASSWORD # <<>>

HasCode(secrets) == secrets.OAUTH2_AUTHORIZATION_CODE_ACCESS_TOKEN # <<>>

HasClientSecret(secrets) ==
    secrets.OAUTH2_CLIENT_CREDENTIALS_CLIENT_SECRET # <<>>

\* C11: the resolver uses the first credential present in the order bearer
\* token, basic username and password (both), authorization-code access
\* token, client-credentials secret: the header of the invocation and of its
\* lookup request is made from that credential, whatever lower-priority
\* secrets are present, and a token request is issued only when the
\* client-credentials secret is the one selected.
C11_CredentialPriority ==
    LET s == context.secrets
        basic == BasicPrefix \o <<"d", "T", "p", "w">>
        expected ==
            IF HasBearer(s) THEN BearerPrefix \o s.BEARER_AUTH_TOKEN
            ELSE IF HasBasic(s) THEN basic
            ELSE IF HasCode(s)
            THEN BearerPrefix \o s.OAUTH2_AUTHORIZATION_CODE_ACCESS_TOKEN
            ELSE BearerPrefix \o tokenResp.access_token
        fourth == ~HasBearer(s) /\ ~HasBasic(s) /\ ~HasCode(s) /\ HasClientSecret(s)
    IN  /\ AuthResolved => authHeader = expected
        /\ \A i \in CallsOf("lookup") : calls[i].Authorization = expected
        /\ CallsOf("token") # {} => fourth
        /\ (AuthResolved /\ fourth) => CallsOf("token") # {}
        /\ (AuthResolved /\ ~fourth) => tokenResp = NoResponse

C11_Witness ==
    /\ pc = "LookingUp"
    /\ ~HasBearer(context.secrets)
    /\ HasBasic(context.secrets)
    /\ HasCode(context.secrets)
    /\ HasClientSecret(context.secrets)
    /\ calls[1].Authorization = BasicPrefix \o <<"d", "T", "p", "w">>

\* the token endpoint answered, and its answer is a failure of the claim
\* C12: a non-2xx status, or a 2xx body without access_token
TokenFailure ==
    /\ tokenResp.net = "response"
    /\ \/ ~ResponseOk(tokenResp)
       \/ tokenResp.jsonOk /\ tokenResp.access_token = <<>>

\* C12: when the client-credentials method is selected and the token
\* endpoint answers with a non-2xx status or with a 2xx body that has no
\* access_token, invoke fails Fatal, not retryable, with the status or the
\* body of the response in the message, and issues neither the lookup nor
\* the reset call.
C12_TokenFailureEchoed ==
    TokenFailure =>
        /\ pc = "Failed"
        /\ err.class = "FatalError"
        /\ ~err.retryable
        /\ \/ err.msg.status = tokenResp.status
           \/ err.msg.body = tokenResp.raw
        /\ CallsOf("lookup") = {}
        /\ CallsOf("reset") = {}

\* C12, what holds of every failed token exchange: Fatal, not retryable,
\* no lookup and no reset call
C12_TokenFailureFatal ==
    TokenFailure =>
        /\ pc = "Failed"
        /\ err.class = "FatalError"
        /\ ~err.retryable
        /\ CallsOf("lookup") = {}
        /\ CallsOf("reset") = {}

\* the token endpoint answered 500 with a body that is no JSON
C12_Witness ==
    /\ tokenResp = BadJson(500)
    /\ pc = "Failed"
    /\ err.msg.text = "Body is unusable"
    /\ err.msg.status = 0

\* invoke failed in getAuthorizationHeader: the input passed validateInputs
\* and no header was returned
ResolverFailed ==
    /\ pc = "Failed"
    /\ validateInputs(params) = NoError
    /\ authHeader = <<>>

\* the messages of the errors getAuthorizationHeader and
\* getClientCredentialsToken throw on the inputs of Spec
ResolverMessages ==
    {NoAuthMessage,
     "OAuth2 Client Credentials flow requires TOKEN_URL and CLIENT_ID in env",
     "OAuth2 token request failed: ", "No access_token in OAuth2 response",
     "Body is unusable", "Unexpected token in JSON", "fetch failed"}

\* C13 as stated: when the resolver fails, invoke throws a Fatal error whose
\* message is the message of the resolver's error, unchanged.
C13_Original ==
    ResolverFailed =>
        /\ err.class = "FatalError"
        /\ err.msg = thrown.msg

\* C13: when the resolver fails it throws a plain Error, and invoke throws a
\* FatalError, not retryable, whose message is 'Unexpected error: ' followed
\* by the message of the resolver's error.
C13_ResolverFailureWrapped ==
    ResolverFailed =>
        /\ thrown.class = "Error"
        /\ thrown.msg.text \in ResolverMessages
        /\ ~thrown.msg.unexpected
        /\ err.class = "FatalError"
        /\ ~err.retryable
        /\ err.msg = [thrown.msg EXCEPT !.unexpected = TRUE]

C13_Witness ==
    /\ ResolverFailed
    /\ AuthMethod(context) = "none"
    /\ thrown.msg.text = NoAuthMessage
    /\ err.msg.text = NoAuthMessage
    /\ err.msg.unexpected

\* the classified errors
ClassifiedErrors == {"RetryableError", "FatalError"}

\* invoke failed in lookupUserByEmail or in resetUserSessions with an error
\* the operation classified
OperationClassified ==
    /\ pc = "Failed"
    /\ lookupResp.net # "none"
    /\ thrown.class \in ClassifiedErrors

\* C14: an error that the lookup or the reset operation classified leaves
\* invoke as it was thrown: the same class, the same retryable flag and the
\* same message, and it is the error the operation makes of the response.
C14_ClassifiedUnchanged ==
    OperationClassified =>
        /\ err.class = thrown.class
        /\ err.retryable = thrown.retryable
        /\ err.msg = thrown.msg
        /\ thrown = IF resetResp.net = "none"
                    THEN LookupError(params.userEmail.s, lookupResp)
                    ELSE ResetError(user.id, resetResp)

C14_Witness ==
    /\ OperationClassified
    /\ resetResp.status = 403
    /\ thrown.class = "FatalError"
    /\ err = thrown

\* C15: every failure of invoke is a RetryableError or a FatalError, and an
\* exception raised inside invoke that is neither leaves it as a FatalError
\* whose message is 'Unexpected error: ' followed by the original message.
C15_EveryFailureClassified ==
    /\ pc = "Failed" <=> err # NoError
    /\ pc = "Failed" =>
        /\ err.class \in ClassifiedErrors
        /\ err.retryable <=> err.class = "RetryableError"
        /\ thrown.class \notin ClassifiedErrors =>
               err = FatalError([thrown.msg EXCEPT !.unexpected = TRUE])
        /\ err.msg.unexpected <=> thrown.class \notin ClassifiedErrors

\* the lookup body {ok: true} has no user: reading user.id is a TypeError
C15_Witness ==
    /\ pc = "Failed"
    /\ lookupResp = [Response(200) EXCEPT !.ok = TRUE]
    /\ thrown.class = "Error"
    /\ err.class = "FatalError"
    /\ err.msg.unexpected

\* the lookup and the reset requests of the invocation
SlackCallIndexes == CallsOf("lookup") \cup CallsOf("reset")

\* number of "/" at the end of s
RECURSIVE TrailingSlashes(_)
TrailingSlashes(s) ==
    IF s # <<>> /\ s[Len(s)] = "/"
    THEN 1 + TrailingSlashes(SubSeq(s, 1, Len(s) - 1))
    ELSE 0

\* s without its last n characters
DropLast(s, n) == SubSeq(s, 1, Len(s) - n)

\* params.address when it is present and otherwise environment.ADDRESS
ChosenAddress ==
    IF params.address # <<>> THEN params.address ELSE context.environment.ADDRESS

\* C16 as stated: the base address of the lookup and of the reset request is
\* params.address when present and otherwise environment.ADDRESS, with one
\* trailing slash stripped.
C16_Original ==
    \A i \in SlackCallIndexes :
        calls[i].url =
            DropLast(ChosenAddress, IF TrailingSlashes(ChosenAddress) > 0 THEN 1 ELSE 0)

\* C16: the base address of the lookup and of the reset request is
\* params.address when present and otherwise environment.ADDRESS, without
\* its trailing slashes up to two of them (getBaseURL strips one, the
\* endpoint function one more); the environment's address is not used when
\* params.address is present, and both requests have the same base address.
C16_BaseAddress ==
    /\ \A i \in SlackCallIndexes :
        /\ calls[i].url =
              DropLast(ChosenAddress,
                       IF TrailingSlashes(ChosenAddress) > 2 THEN 2
                       ELSE TrailingSlashes(ChosenAddress))
        /\ params.address # <<>> => "e" \notin {calls[i].url[k] : k \in 1..Len(calls[i].url)}
    /\ \A i, j \in SlackCallIndexes : calls[i].url = calls[j].url

C16_Witness ==
    /\ pc = "Succeeded"
    /\ params.address = <<"p", "/">>
    /\ context.environment.ADDRESS = <<"e">>
    /\ \A i \in SlackCallIndexes : calls[i].url = <<"p">>
    /\ CallsOf("reset") # {}

\* neither params.address nor environment.ADDRESS is present
NoAddress == params.address = <<>> /\ context.environment.ADDRESS = <<>>

IsDigits(t) == t # <<>> /\ \A k \in 1..Len(t) : t[k] \in Digits

\* u is the unit name, in any case of its letters
UnitIs(u, name) ==
    /\ Len(u) = Len(name)
    /\ \A k \in 1..Len(u) :
          \/ u[k] = name[k]
          \/ name[k] = "m" /\ u[k] = "M"
          \/ name[k] = "s" /\ u[k] = "S"
          \/ name[k] = "h" /\ u[k] = "H"

\* the ways to read s as <number><unit>: digits, then nothing or a dot and
\* digits, then nothing or one of the units
DurationForms(s) ==
    {f \in {[int |-> SubSeq(s, 1, i), mid |-> SubSeq(s, i + 1, j),
             unit |-> SubSeq(s, j + 1, Len(s))] :
                i \in 1..Len(s), j \in 0..Len(s)} :
        /\ IsDigits(f.int)
        /\ f.mid = <<>> \/ (Head(f.mid) = "." /\ IsDigits(Tail(f.mid)))
        /\ Len(f.int) + Len(f.mid) + Len(f.unit) = Len(s)
        /\ \/ f.unit = <<>>
           \/ \E name \in {<<"m", "s">>, <<"s">>, <<"m">>, <<"h">>} :
                 UnitIs(f.unit, name)}

\* number x 1, x 1000, x 60000 or x 3600000 for the form f, the number
\* being the digits of f with Len(f.mid) - 1 of them after the point
FormMillis(f) ==
    LET digits == f.int \o (IF f.mid = <<>> THEN <<>> ELSE Tail(f.mid))
        places == IF f.mid = <<>> THEN 0 ELSE Len(f.mid) - 1
        number == DecimalValue(digits)
    IN  IF f.unit = <<>> \/ UnitIs(f.unit, <<"m", "s">>)
        THEN Millis(number, 0 - places)
        ELSE IF UnitIs(f.unit, <<"s">>) THEN Millis(number, 3 - places)
        ELSE IF UnitIs(f.unit, <<"m">>) THEN Millis(6 * number, 4 - places)
        ELSE Millis(36 * number, 5 - places)

\* C18: parseDuration gives 100 for an absent or empty delay, number x 1,
\* x 1000, x 60000 or x 3600000 for a string <number><unit> with unit ms
\* (or none), s, m or h in any case, and 100 for every other string.
C18_ParseDuration ==
    (pc = "LookingUp" /\ params.delay.t \in {"undefined", "string"}) =>
        LET s == params.delay.s
        IN  /\ s = <<>> => delayMs = Millis(100, 0)
            /\ \A f \in DurationForms(s) : delayMs = FormMillis(f)
            /\ (s # <<>> /\ DurationForms(s) = {}) => delayMs = Millis(100, 0)

\* '1.5m' gives 90000
C18_Witness ==
    /\ pc = "LookingUp"
    /\ params.delay = JsString(<<"1", ".", "5", "m">>)
    /\ delayMs = [mant |-> 9, exp |-> 4]

\* C19: the Duration Parser never fails: a delay that does not match the
\* duration format gives the default of 100 ms, and an invocation with a
\* valid email, a credential and a base address is never failed because of
\* its delay (it issues the lookup).
C19_ParserNeverFails ==
    (/\ validateInputs(params) = NoError
     /\ AuthMethod(context) # "none"
     /\ Address(params, context) # <<>>) =>
        /\ pc # "Failed"
        /\ pc = "LookingUp" =>
              /\ CallsOf("lookup") # {}
              /\ (params.delay.t # "string" \/ DurationForms(params.delay.s) = {})
                    => delayMs = Millis(100, 0)

\* what holds of the delays that are strings or absent: no failure
C19_StringDelayNeverFails ==
    params.delay.t \in {"undefined", "string"} => pc # "Failed"

\* delay: 500, a number
C19_Witness ==
    /\ params.delay = JsNumber(500)
    /\ pc = "Failed"
    /\ thrown.class = "Error"
    /\ err.class = "FatalError"
    /\ err.msg.text = "durationStr.match is not a function"
    /\ calls = <<>>

\* C20: a call of the error entry point never returns: it throws the value
\* of params.error as it is (the same class, message and retryable flag),
\* issues no network call and changes nothing of the invocation.
C20_ErrorRethrows ==
    [][errorCall' # errorCall =>
          /\ errorCall'.called
          /\ ~errorCall'.returned
          /\ errorCall'.thrown = errorCall'.given
          /\ calls' = calls
          /\ timers' = timers
          /\ pc' = pc
          /\ result' = result
          /\ err' = err]_vars

\* the host hands the Retryable error of a failed invoke to the entry point
C20_Witness ==
    /\ errorCall.called
    /\ pc = "Failed"
    /\ lookupResp.status = 429
    /\ err.class = "RetryableError"
    /\ errorCall.given = err
    /\ errorCall.thrown = err

\* C21: a call of halt returns {userEmail: params.userEmail or 'unknown'
\* when absent, reason: params.reason or 'unknown' when absent, haltedAt: a
\* timestamp, cleanupCompleted: true}; it does not fail, issues no network
\* call and starts no wait.
C21_HaltRecord ==
    /\ [](haltCall.called =>
            /\ haltCall.returned
            /\ haltCall.result.userEmail =
                  (IF haltCall.params.userEmail = <<>> THEN Unknown
                   ELSE haltCall.params.userEmail)
            /\ haltCall.result.reason =
                  (IF haltCall.params.reason = <<>> THEN Unknown
                   ELSE haltCall.params.reason)
            /\ haltCall.result.haltedAt # ""
            /\ haltCall.result.cleanupCompleted)
    /\ [][haltCall' # haltCall =>
            /\ haltCall'.called
            /\ calls' = calls
            /\ timers' = timers]_vars

\* halt({reason: 'timeout'}) while the lookup is awaited
C21_Witness ==
    /\ haltCall.called
    /\ pc = "LookingUp"
    /\ haltCall.params.userEmail = <<>>
    /\ haltCall.params.reason = <<"t", "i", "m", "e", "o", "u", "t">>
    /\ haltCall.result.userEmail = Unknown
    /\ haltCall.result.reason = <<"t", "i", "m", "e", "o", "u", "t">>

\* the invocation with locals l is over
Finished(l) == l.pc \in {"Succeeded", "Failed"}

\* what the host gets from the invocation with locals l: the fields of the
\* result but its timestamp, or the class and the message of the error
Outcome(l) ==
    [succeeded |-> l.pc = "Succeeded",
     userEmail |-> l.result.userEmail,
     userId |-> l.result.userId,
     sessionsRevoked |-> l.result.sessionsRevoked,
     class |-> l.err.class,
     retryable |-> l.err.retryable,
     msg |-> l.err.msg]

\* the two invocations had the same params, the same context and the same
\* responses
SameInputs(a, b) ==
    /\ a.params = b.params
    /\ a.context = b.context
    /\ a.tokenResp = b.tokenResp
    /\ a.lookupResp = b.lookupResp
    /\ a.resetResp = b.resetResp

C23_RequestHeaders ==
    \A i \in 1..Len(calls) :
        /\ calls[i].op \in {"token", "lookup", "reset"}
        /\ calls[i].UserAgent = SGNL_USER_AGENT
        /\ calls[i].op \in {"lookup", "reset"} =>
              /\ calls[i].Authorization # <<>>
              /\ calls[i].Authorization = authHeader
              /\ calls[i].ContentType = "application/json"
              /\ calls[i].Accept = ""

\* an invocation with a token exchange, a lookup and a reset
C23_Witness ==
    /\ pc = "Succeeded"
    /\ Len(calls) = 3
    /\ calls[1].op = "token"
    /\ calls[2].op = "lookup"
    /\ calls[3].op = "reset"
    /\ \A i \in 1..3 : calls[i].UserAgent = "SGNL-CAEP-Hub/2.0"

\* the lookup answered 2xx with ok: true and a user record without id, or
\* without a user record
LookupWithoutId ==
    /\ Is2xx(lookupResp)
    /\ lookupResp.jsonOk
    /\ lookupResp.ok
    /\ ~lookupResp.user.present \/ lookupResp.user.id = Undefined

\* C24: when the lookup answers 2xx with ok: true and a user record without
\* id, or without a user record, invoke does not return a success result,
\* and when it fails it fails with a Fatal error, whatever the reset endpoint
\* answers.
C24_NoUserIdFatal ==
    LookupWithoutId =>
        /\ pc # "Succeeded"
        /\ result = NoResult
        /\ pc = "Failed" => err.class = "FatalError"

\* what holds of a lookup without a user record: reading user.id fails, no
\* reset request is made and invoke fails Fatal
C24_NoUserRecordFatal ==
    (Is2xx(lookupResp) /\ lookupResp.jsonOk /\ lookupResp.ok
        /\ ~lookupResp.user.present) =>
        /\ pc = "Failed"
        /\ err.class = "FatalError"
        /\ CallsOf("reset") = {}

\* lookup {ok: true, user: {}}, reset {ok: true}: success without a user id
C24_Witness ==
    /\ lookupResp.user.present
    /\ lookupResp.user.id = Undefined
    /\ pc = "Succeeded"
    /\ result.sessionsRevoked
    /\ result.userId = Undefined
    /\ calls[Len(calls)].body = <<>>

\* number of responses (or rejections) the invocation has received
Responded ==
    Cardinality({r \in {<<"token", tokenResp>>, <<"lookup", lookupResp>>,
                        <<"reset", resetResp>>} : r[2].net # "none"})

\* number of requests of the invocation that have no answer yet
InFlight == Len(calls) - Responded

\* C25: at most one request of an invocation is in flight at any time: a
\* request is issued only when no other is in flight, the lookup only after
\* the answer to the token request (if one was made), and the reset only
\* after the answer to the lookup and at the end of the wait.
C25_OneRequestInFlight ==
    /\ [](InFlight \in {0, 1})
    /\ [][calls' # calls =>
            /\ InFlight = 0
            /\ Len(calls') = Len(calls) + 1
            /\ calls'[Len(calls')].op = "lookup" =>
                  (CallsOf("token") # {} => tokenResp.net = "response")
            /\ calls'[Len(calls')].op = "reset" =>
                  /\ lookupResp.net = "response"
                  /\ Len(timers) = 1
                  /\ ~timers[1].fired
                  /\ timers'[1].fired]_vars

\* the reset request is in flight, after the token exchange and the lookup
C25_Witness ==
    /\ pc = "Invalidating"
    /\ Len(calls) = 3
    /\ InFlight = 1
    /\ tokenResp.net = "response"
    /\ lookupResp.net = "response"
    /\ resetResp.net = "none"

\* the error raised in an invocation with params p and context c to which
\* the endpoints answer tr (token), lr (lookup) and rr (reset), as the
\* statements of invoke raise it one after the other; NoError when none does
ErrorOf(p, c, tr, lr, rr) ==
    LET a == getAuthorizationHeader(c)
    IN  IF validateInputs(p) # NoError THEN validateInputs(p)
        ELSE IF a.kind = "error" THEN a.error
        ELSE IF a.kind = "fetch" /\ TokenError(tr) # NoError THEN TokenError(tr)
        ELSE IF BaseURLError(p, c) # NoError THEN BaseURLError(p, c)
        ELSE IF DurationError(p.delay) # NoError THEN DurationError(p.delay)
        ELSE IF LookupError(p.userEmail.s, lr) # NoError
        THEN LookupError(p.userEmail.s, lr)
        ELSE IF ~lr.user.present
        THEN PlainError(Msg("Cannot read properties of undefined (reading 'id')"))
        ELSE ResetError(lr.user.id, rr)

\* the outcome of that invocation, from its own inputs alone
OutcomeOf(p, c, tr, lr, rr) ==
    LET e == ErrorOf(p, c, tr, lr, rr)
    IN  IF e # NoError
        THEN [succeeded |-> FALSE, userEmail |-> <<>>, userId |-> <<>>,
              sessionsRevoked |-> FALSE, class |-> Caught(e).class,
              retryable |-> Caught(e).retryable, msg |-> Caught(e).msg]
        ELSE [succeeded |-> TRUE, userEmail |-> p.userEmail.s,
              userId |-> lr.user.id, sessionsRevoked |-> TRUE,
              class |-> "none", retryable |-> FALSE, msg |-> Msg("")]

\* the two invocations
Invocations == {l \in {Locals, other} : l.pc \notin {"none", "Pending"}}

\* C26: under every interleaving of two invocations, the outcome of each
\* (result fields, or class and message of the error) is the outcome its own
\* params, context and responses give, and the user id it sends to the reset
\* endpoint is the id of the user record its own lookup returned.
C26_Independent ==
    \A l \in Invocations :
        /\ Finished(l) =>
              Outcome(l) = OutcomeOf(l.params, l.context, l.tokenResp,
                                     l.lookupResp, l.resetResp)
        /\ \A i \in 1..Len(l.calls) :
              l.calls[i].op = "reset" =>
                  l.calls[i].body =
                      IF l.lookupResp.user.id = Undefined THEN <<>>
                      ELSE <<<<"user_id", l.lookupResp.user.id>>>>

\* two invocations in progress at the same time, for two users
C26_Witness ==
    /\ overlapped
    /\ pc = "Succeeded"
    /\ other.pc = "Succeeded"
    /\ context # other.context
    /\ result.userId = <<"U", "1">>
    /\ other.result.userId = <<"U", "2">>

\* the state of the invocation: the token exchange is part of
\* AuthResolving, and the base address and the delay are resolved on the
\* way into LookingUp
StateOf(p) ==
    CASE p = "TokenExchange" -> "AuthResolving"
      [] p = "BaseResolving" -> "LookingUp"
      [] OTHER -> p

StateRank(s) ==
    CASE s = "Validating" -> 1
      [] s = "AuthResolving" -> 2
      [] s = "LookingUp" -> 3
      [] s = "Delaying" -> 4
      [] s = "Invalidating" -> 5
      [] s = "Succeeded" -> 6

\* C27: an invocation goes through Validating, AuthResolving, LookingUp,
\* Delaying, Invalidating, Succeeded in that order, one state at a time and
\* never back, or from a state that is not terminal to Failed; nothing
\* follows Succeeded or Failed; Succeeded comes from Invalidating, with the
\* answer ok: true of the reset endpoint.
C27_StateOrder ==
    /\ [](pc \in {"Validating", "AuthResolving", "TokenExchange", "BaseResolving",
                  "LookingUp", "Delaying", "Invalidating", "Succeeded", "Failed"})
    /\ [][/\ pc \notin {"Succeeded", "Failed"}
          /\ pc' # pc
          /\ \/ pc' = "Failed"
             \/ /\ StateOf(pc') = StateOf(pc)
                /\ <<pc, pc'>> \in {<<"AuthResolving", "TokenExchange">>,
                                    <<"BaseResolving", "LookingUp">>}
             \/ StateRank(StateOf(pc')) = StateRank(StateOf(pc)) + 1
          /\ pc' = "Succeeded" =>
                pc = "Invalidating" /\ IsOkTrue(resetResp')]_vars
    /\ [](pc = "Succeeded" => IsOkTrue(resetResp) /\ CallsOf("reset") # {})

\* Succeeded, after a token exchange, a lookup, the wait and the reset
C27_Witness ==
    /\ pc = "Succeeded"
    /\ tokenResp.net = "response"
    /\ IsOkTrue(lookupResp)
    /\ Len(timers) = 1
    /\ timers[1].fired
    /\ IsOkTrue(resetResp)

\* the lookup gave invoke a user record
LookupSucceeded == IsOkTrue(lookupResp) /\ lookupResp.user.present

\* C28: when the lookup succeeds invoke waits once, for
\* parseDuration(params.delay) milliseconds (100 when delay is absent); the
\* wait starts when the lookup response is received and ends when the reset
\* request is issued; when validation, the resolver or the lookup fails
\* there is no wait.
C28_OneWait ==
    /\ [](/\ Len(timers) = (IF LookupSucceeded THEN 1 ELSE 0)
          /\ LookupSucceeded =>
                /\ timers[1].ms = parseDuration(params.delay)
                /\ params.delay = JsUndefined => timers[1].ms = [mant |-> 1, exp |-> 2]
                /\ params.delay = JsString(<<"2", "s">>) =>
                      timers[1].ms = [mant |-> 2, exp |-> 3]
                /\ timers[1].fired <=> CallsOf("reset") # {}
                /\ ~timers[1].fired <=> pc = "Delaying")
    /\ [][timers' # timers =>
            \/ /\ timers = <<>>
               /\ Len(timers') = 1
               /\ ~timers'[1].fired
               /\ lookupResp.net = "none"
               /\ lookupResp'.net = "response"
               /\ calls' = calls
            \/ /\ Len(timers) = 1
               /\ timers' = <<[timers[1] EXCEPT !.fired = TRUE]>>
               /\ ~timers[1].fired
               /\ CallsOf("reset") = {}
               /\ Len(calls') = Len(calls) + 1
               /\ calls'[Len(calls')].op = "reset"]_vars

\* delay: '2s': a wait of 2000 ms that is over, the reset request issued
C28_Witness ==
    /\ pc = "Invalidating"
    /\ params.delay = JsString(<<"2", "s">>)
    /\ timers = <<[ms |-> [mant |-> 2, exp |-> 3], fired |-> TRUE]>>
    /\ CallsOf("reset") # {}

\* C29: there is no cancellation.  A call of halt or of error changes
\* nothing of the invocation in progress, a wait that started ends with the
\* reset request, and an invocation whose wait was going on when halt
\* returned cleanupCompleted: true issues its reset request afterwards.
C29_NoCancellation ==
    /\ [][(haltCall' # haltCall \/ errorCall' # errorCall) =>
            /\ pc' = pc
            /\ timers' = timers
            /\ calls' = calls
            /\ user' = user]_vars
    /\ (pc = "Delaying") ~> (pc = "Invalidating" /\ CallsOf("reset") # {})
    /\ (pc = "Delaying" /\ haltCall.called /\ haltCall.result.cleanupCompleted)
          ~> (CallsOf("reset") # {})
    /\ <>(pc \in {"Succeeded", "Failed"})

\* halt was called during the wait, and the invocation went on to succeed
C29_Witness ==
    /\ haltCall.called
    /\ haltCall.at = "Delaying"
    /\ haltCall.result.cleanupCompleted
    /\ CallsOf("reset") # {}
    /\ pc = "Succeeded"

\* the character a percent escape of the query stands for
Unescaped(hex) ==
    CASE hex = <<"4", "0">> -> "@"
      [] hex = <<"2", "0">> -> " "
      [] hex = <<"0", "9">> -> "\t"
      [] hex = <<"0", "A">> -> "\n"

\* the value the endpoint reads from the query string q
RECURSIVE DecodeURIComponent(_)
DecodeURIComponent(q) ==
    IF q = <<>> THEN <<>>
    ELSE IF Head(q) = "%" /\ Len(q) >= 3
    THEN <<Unescaped(SubSeq(q, 2, 3))>> \o DecodeURIComponent(SubSeq(q, 4, Len(q)))
    ELSE <<Head(q)>> \o DecodeURIComponent(Tail(q))

\* C30: the user_id in the body of the reset request is the id of the user
\* record the lookup of the same invocation returned, the userId of the
\* result is that id, and the email of the lookup query and of the result is
\* params.userEmail as given.
C30_UserIdFlow ==
    /\ \A i \in CallsOf("lookup") :
          /\ DecodeURIComponent(calls[i].query) = params.userEmail.s
          /\ lookupResp.net = "none" => i = Len(calls)
    /\ \A i \in CallsOf("reset") :
          /\ LookupSucceeded
          /\ user = lookupResp.user
          /\ calls[i].body =
                IF lookupResp.user.id = Undefined THEN <<>>
                ELSE <<<<"user_id", lookupResp.user.id>>>>
    /\ pc = "Succeeded" =>
          /\ result.userId = lookupResp.user.id
          /\ result.userEmail = params.userEmail.s
          /\ params.userEmail.t = "string"

\* the lookup returned U2: U2 is posted and returned
C30_Witness ==
    /\ pc = "Succeeded"
    /\ lookupResp.user.id = <<"U", "2">>
    /\ calls[Len(calls)].body = <<<<"user_id", <<"U", "2">>>>>>
    /\ result.userId = <<"U", "2">>
    /\ params.userEmail.s = ValidEmail
    /\ \E i \in CallsOf("lookup") :
          calls[i].query = <<"a", "%", "4", "0", "a", ".", "a">>
    /\ result.userEmail = ValidEmail

\* C31: the Authorization header is computed once per invocation: once set
\* it does not change, the lookup and the reset request carry the same
\* value, and in client-credentials mode there is exactly one token request,
\* the first request of the invocation, and none after the lookup.
C31_HeaderComputedOnce ==
    /\ [](/\ \A i, j \in SlackCallIndexes :
                calls[i].Authorization = calls[j].Authorization
          /\ Cardinality(CallsOf("token")) <= 1
          /\ CallsOf("token") \subseteq {1}
          /\ (AuthMethod(context) = "client_credentials" /\ SlackCallIndexes # {})
                => CallsOf("token") = {1}
          /\ AuthMethod(context) # "client_credentials" => CallsOf("token") = {})
    /\ [][authHeader' # authHeader =>
            /\ authHeader = <<>>
            /\ SlackCallIndexes = {}]_vars

\* client-credentials mode: one token request, then lookup and reset with
\* the header made of its token
C31_Witness ==
    /\ pc = "Invalidating"
    /\ AuthMethod(context) = "client_credentials"
    /\ Len(calls) = 3
    /\ calls[1].op = "token"
    /\ calls[2].Authorization = BearerPrefix \o <<"k">>
    /\ calls[3].Authorization = BearerPrefix \o <<"k">>

\* C32: no step of invoke, of error or of halt changes the params or the
\* context (environment, secrets) of the invocation, and halt and error
\* leave the params they were given as they are.
C32_InputsUnchanged ==
    /\ [][/\ params' = params
          /\ context' = context
          /\ context'.environment = context.environment
          /\ context'.secrets = context.secrets]_vars
    /\ [][haltCall.called => haltCall'.params = haltCall.params]_vars
    /\ [][errorCall.called => errorCall'.given = errorCall.given]_vars

\* a success after a token exchange, with halt and error called
C32_Witness ==
    /\ haltCall.called
    /\ errorCall.called
    /\ pc = "Succeeded"
    /\ CallsOf("token") # {}

\* the client-credentials secret is the credential selected, and the
\* environment has no token URL or no client id
IncompleteClientCredentials ==
    /\ AuthMethod(context) = "client_credentials"
    /\ \/ context.environment.OAUTH2_CLIENT_CREDENTIALS_TOKEN_URL = <<>>
       \/ context.environment.OAUTH2_CLIENT_CREDENTIALS_CLIENT_ID = <<>>

\* C33: when the client-credentials secret is selected and the environment
\* lacks the token URL or the client id, invoke issues no request at all
\* and fails Fatal; for a valid email the failure is the resolver's.
C33_IncompleteClientCredentials ==
    IncompleteClientCredentials =>
        /\ calls = <<>>
        /\ tokenResp = NoResponse
        /\ pc \in {"Validating", "AuthResolving", "Failed"}
        /\ pc = "Failed" =>
              /\ err.class = "FatalError"
              /\ ~err.retryable
              /\ validateInputs(params) = NoError =>
                    /\ err.msg.unexpected
                    /\ err.msg.text =
                          "OAuth2 Client Credentials flow requires TOKEN_URL and CLIENT_ID in env"
        /\ (pc = "AuthResolving") => getAuthorizationHeader(context).kind = "error"

\* the token URL is configured, the client id is not
C33_Witness ==
    /\ IncompleteClientCredentials
    /\ context.environment.OAUTH2_CLIENT_CREDENTIALS_TOKEN_URL # <<>>
    /\ pc = "Failed"
    /\ validateInputs(params) = NoError
    /\ err.class = "FatalError"
    /\ calls = <<>>

\* the names and the values of the form parameters of a token request
FormNames(body) == {body[k][1] : k \in 1..Len(body)}

FormValues(body, name) == {body[k][2] : k \in {j \in 1..Len(body) : body[j][1] = name}}

\* C34: the token exchange is a form-encoded POST to the token URL with
\* grant_type=client_credentials; scope and audience are sent exactly when
\* configured; with auth style 'InParams' the client id and secret are
\* body parameters and there is no Authorization header, otherwise the
\* header is Basic base64(clientId:clientSecret) and the body holds
\* neither the client id nor the client secret.
C34_TokenExchangeForm ==
    \A i \in CallsOf("token") :
        LET c == calls[i]
            env == context.environment
            scope == env.OAUTH2_CLIENT_CREDENTIALS_SCOPE
            audience == env.OAUTH2_CLIENT_CREDENTIALS_AUDIENCE
        IN  /\ c.method = "POST"
            /\ c.url = env.OAUTH2_CLIENT_CREDENTIALS_TOKEN_URL
            /\ c.ContentType = "application/x-www-form-urlencoded"
            /\ FormValues(c.body, "grant_type") = {<<"client_credentials">>}
            /\ FormValues(c.body, "scope") = IF scope = <<>> THEN {} ELSE {scope}
            /\ FormValues(c.body, "audience") =
                  IF audience = <<>> THEN {} ELSE {audience}
            /\ Cardinality(FormNames(c.body)) = Len(c.body)
            /\ IF env.OAUTH2_CLIENT_CREDENTIALS_AUTH_STYLE = InParams
               THEN /\ FormValues(c.body, "client_id") =
                          {env.OAUTH2_CLIENT_CREDENTIALS_CLIENT_ID}
                    /\ FormValues(c.body, "client_secret") =
                          {context.secrets.OAUTH2_CLIENT_CREDENTIALS_CLIENT_SECRET}
                    /\ c.Authorization = <<>>
               ELSE /\ c.Authorization = BasicPrefix \o <<"Y", "z", "p", "z">>
                    /\ "client_id" \notin FormNames(c.body)
                    /\ "client_secret" \notin FormNames(c.body)

\* an 'InParams' exchange with scope and audience, completed
C34_Witness ==
    /\ context.environment.OAUTH2_CLIENT_CREDENTIALS_AUTH_STYLE = InParams
    /\ context.environment.OAUTH2_CLIENT_CREDENTIALS_SCOPE # <<>>
    /\ context.environment.OAUTH2_CLIENT_CREDENTIALS_AUDIENCE # <<>>
    /\ CallsOf("token") = {1}
    /\ calls[1].Authorization = <<>>
    /\ Len(calls[1].body) = 5
    /\ pc = "Succeeded"

\* the header without its first seven characters
AfterPrefix(header) == SubSeq(header, Len(BearerPrefix) + 1, Len(header))

\* C35 as stated: the header of a bearer-token invocation starts with
\* 'Bearer ' and what follows the prefix does not start with it again.
C35_PrefixExactlyOnce ==
    authHeader # <<>> =>
        /\ StartsWith(authHeader, BearerPrefix)
        /\ ~StartsWith(AfterPrefix(authHeader), BearerPrefix)

\* C35: for the bearer-token credential the header is the token itself
\* when the token starts with 'Bearer ' and 'Bearer ' followed by the
\* token otherwise; it always starts with 'Bearer ', prefixing it again
\* changes nothing, and the prefix is followed by a second 'Bearer '
\* exactly when the token itself starts with 'Bearer Bearer '.  The lookup
\* request carries that header.
C35_BearerPrefix ==
    LET token == context.secrets.BEARER_AUTH_TOKEN
    IN  authHeader # <<>> =>
            /\ StartsWith(token, BearerPrefix) => authHeader = token
            /\ ~StartsWith(token, BearerPrefix) => authHeader = BearerPrefix \o token
            /\ StartsWith(authHeader, BearerPrefix)
            /\ WithBearer(authHeader) = authHeader
            /\ WithBearer(WithBearer(token)) = WithBearer(token)
            /\ StartsWith(AfterPrefix(authHeader), BearerPrefix)
                  <=> StartsWith(token, BearerPrefix \o BearerPrefix)
            /\ \A i \in SlackCallIndexes : calls[i].Authorization = authHeader

\* the token 'Bearer x' sent unchanged with the lookup request
C35_Witness ==
    /\ context.secrets.BEARER_AUTH_TOKEN = BearerPrefix \o <<"x">>
    /\ Len(calls) = 1
    /\ calls[1].op = "lookup"
    /\ calls[1].Authorization = BearerPrefix \o <<"x">>

\* the request rejected, or a 2xx response whose body is no JSON
TransportFailure(r) ==
    \/ r.net = "reject"
    \/ r.net = "response" /\ r.status \in 200..299 /\ ~r.jsonOk

\* invoke failed with FatalError 'Unexpected error: ...', not retryable
FailedUnexpected ==
    /\ pc = "Failed"
    /\ thrown.class = "Error"
    /\ err.class = "FatalError"
    /\ ~err.retryable
    /\ err.msg.unexpected

\* C36: a transport failure of the lookup or of the reset call makes
\* invoke fail with a Fatal 'Unexpected error: ...', never a Retryable one,
\* and after a transport failure of the lookup there is no reset request
\* and no delay timer.
C36_TransportFailureFatal ==
    /\ TransportFailure(lookupResp) =>
          /\ FailedUnexpected
          /\ CallsOf("reset") = {}
          /\ timers = <<>>
          /\ resetResp = NoResponse
    /\ TransportFailure(resetResp) =>
          /\ FailedUnexpected
          /\ Cardinality(CallsOf("reset")) = 1
          /\ result = NoResult

\* the lookup answered 200 with a body that is no JSON
C36_Witness ==
    /\ lookupResp = BadJson(200)
    /\ FailedUnexpected
    /\ CallsOf("lookup") # {}
    /\ CallsOf("reset") = {}

\* invoke failed in getBaseURL
FailedNoURL ==
    /\ pc = "Failed"
    /\ thrown = BaseURLError(params, context)
    /\ err.msg.text =
          "No URL specified. Provide address parameter or ADDRESS environment variable"

\* C37: the checks run in the order email validation, authorization, base
\* address, delay, lookup, and the first that fails decides the error: an
\* invalid userEmail is the error whatever the credentials and the address
\* are; with a valid email and no credentials the error is the resolver's
\* whatever the address is; a failure for a missing base address comes
\* after the header was resolved, in client-credentials mode after the
\* token request was issued and answered; and a lookup request is issued
\* only with a header, a base address and a delay.
C37_CheckOrder ==
    /\ validateInputs(params) # NoError =>
          /\ pc \in {"Validating", "Failed"}
          /\ calls = <<>>
          /\ pc = "Failed" =>
                thrown = validateInputs(params) /\ err = validateInputs(params)
    /\ (validateInputs(params) = NoError /\ AuthMethod(context) = "none") =>
          /\ pc \in {"Validating", "AuthResolving", "Failed"}
          /\ calls = <<>>
          /\ pc = "Failed" =>
                /\ err.class = "FatalError"
                /\ err.msg.text = NoAuthMessage
    /\ FailedNoURL =>
          /\ validateInputs(params) = NoError
          /\ authHeader # <<>>
          /\ SlackCallIndexes = {}
          /\ AuthMethod(context) = "client_credentials" =>
                /\ CallsOf("token") = {1}
                /\ tokenResp.access_token # <<>>
    /\ SlackCallIndexes # {} =>
          /\ validateInputs(params) = NoError
          /\ authHeader # <<>>
          /\ baseUrl # <<>>
          /\ delayMs = parseDuration(params.delay)

\* client-credentials mode without a base address: the token request was
\* issued and invoke failed with 'No URL specified'
C37_Witness ==
    /\ AuthMethod(context) = "client_credentials"
    /\ NoAddress
    /\ FailedNoURL
    /\ Len(calls) = 1
    /\ calls[1].op = "token"

\* invoke returned or threw
Terminated == pc \in {"Succeeded", "Failed"}

\* C38: every invocation terminates: when every request is answered or
\* fails and the timer fires, invoke reaches Succeeded with a result or
\* Failed with a Retryable or Fatal error, and stays there; it issues at
\* most three requests, at most one token exchange, one lookup and one
\* reset, in that order.
C38_Terminates ==
    /\ <>Terminated
    /\ [](/\ Len(calls) <= 3
          /\ Cardinality(CallsOf("token")) <= 1
          /\ Cardinality(CallsOf("lookup")) <= 1
          /\ Cardinality(CallsOf("reset")) <= 1
          /\ \A i \in CallsOf("token") : \A j \in CallsOf("lookup") : i < j
          /\ \A i \in CallsOf("lookup") : \A j \in CallsOf("reset") : i < j
          /\ pc = "Succeeded" => result # NoResult
          /\ pc = "Failed" =>
                /\ err.class \in {"RetryableError", "FatalError"}
                /\ result = NoResult)
    /\ [][Terminated => pc' = pc /\ calls' = calls]_vars

\* a success after the three requests
C38_Witness ==
    /\ pc = "Succeeded"
    /\ result # NoResult
    /\ Len(calls) = 3
    /\ calls[1].op = "token"
    /\ calls[2].op = "lookup"
    /\ calls[3].op = "reset"
    /\ timers # <<>>

====
